---- MODULE Spec2Model ----
(***************************************************************************)
(* A model of the debug orchestrator of devinat1/humancode                 *)
(* (packages/debugger): the session manager, the breakpoint tools, and the *)
(* two debug adapters (PythonAdapter over DAP, NodeAdapter over CDP) with  *)
(* their stop/resume synchronisation.                                      *)
(*                                                                         *)
(* The module holds several specifications over one set of variables; each *)
(* specification moves its own group of variables and leaves the others    *)
(* at their initial value:                                                 *)
(*   SpecMgr      session/manager.ts: create and stop, adapters coarse     *)
(*   SpecBp       tools/breakpoints.ts + session/state.ts: the registry    *)
(*   SpecAdapter  adapter/python.ts, adapter/node.ts, dap/client.ts,       *)
(*                tools/execution.ts: one session and its adapter, with    *)
(*                the peer (debug server, debuggee, child process)         *)
(*   SpecInitialPause  the same adapter with start and a further call of   *)
(*                waitForInitialPause                                      *)
(*   SpecClient   dap/client.ts and the cdpSend part of NodeAdapter: the   *)
(*                request/response correlator; SpecClientFair for what     *)
(*                must eventually happen                                   *)
(*   SpecPhase    session/debug-phase.ts and tool/transition-phase.ts:     *)
(*                the phase machine of the debug agent                     *)
(***************************************************************************)
EXTENDS Integers, Sequences, FiniteSets, TLC

(***************************************************************************)
(* Bounds of the model.                                                    *)
(***************************************************************************)
\* lines of a source file are 1..MaxLine
MaxLine == 2
\* most breakpoints a session may hold, over all files, in the explored states
MaxList == 3
\* longest request list of one set_breakpoints call
MaxReq == 2
\* create calls explored by SpecMgr
MaxSessions == 3
\* continue/step calls explored by SpecAdapter
MaxCalls == 1
\* stopped/paused events the debuggee emits in SpecAdapter
MaxStops == 2
\* largest currentStep the phase machine is taken to
MaxStep == 3
\* requests sent through a correlator
MaxRequests == 3
\* responses written by the peer and not yet read
MaxWire == 2

\* frames the peer of the decoder writes
MaxFrames == 3

\* NodeAdapter.setBreakpoints calls explored step by step
MaxBpCalls == 2

\* events decoded by a DapClient with handlers
MaxEvents == 2

\* once(event) calls on a DapClient
MaxOnce == 2

\* largest frameId an inspection call passes
MaxFrameId == 2

\* manager.create calls explored await by await
MaxCreates == 3

\* set_breakpoints / remove_breakpoints calls explored await by await
MaxToolCalls == 2
\* longest request list of a set_breakpoints call explored by SpecBpCalls
MaxToolReq == 1
\* State objects a caller of DebugPhase keeps
MaxHeld == 1

VARIABLES
  \* ---- session manager (manager.ts) ----
  activeSession,    \* 0 for null, else N of the active "session-N"
  sessionCounter,   \* manager.ts:6
  adapters,         \* adapter instances in creation order (coarse state)
  mgrLast,          \* outcome of the last manager call
  \* ---- session state registry and breakpoint tools ----
  breakpoints,      \* SessionState.breakpoints of the active session
  breakpointIds,    \* NodeAdapter.breakpointIds of its adapter
  peerBp,           \* how the debuggee runtime resolves a requested line
  lastCall,         \* the last tool call: arguments, what was sent, result
  bpCalls,          \* NodeAdapter.setBreakpoints calls, each at its await
  runtime,          \* the debuggee's breakpoints; CDP requests not yet handled
  \* ---- one session, its adapter and the peer ----
  session,          \* SessionState.stoppedThreadId / stoppedReason
  adapter,          \* the fields of the PythonAdapter / NodeAdapter instance
  waits,            \* the promises made by waitForStop / waitForPause
  calls,            \* the continue/step tool calls
  startCall,        \* the start_debug_session call
  stopCall,         \* the stop_debug_session call
  peer,             \* child process, debuggee, requests it has not handled
  inbox,            \* messages written by the peer, not yet read
  link,             \* socket state and the close / exit events not yet emitted
  \* ---- the phase machine of the debug agent ----
  store,            \* DebugPhase's store: session id -> State
  lastTransition,   \* the last transition call: phases and outcome
  confirmEdges,     \* number of completed CONFIRMING -> PLANNING edges
  toolCheck,        \* the last isToolAllowed call and what it returned
  \* ---- a request/response correlator on its own ----
  client,           \* DapClient / NodeAdapter: seq, pending, connected or ws
  promises,         \* the promises sendRequest / cdpSend returned, in order
  wire,             \* responses the peer wrote that were not read yet
  socket,           \* the TCP socket / WebSocket
  \* ---- the decoder of DapClient (dap/client.ts onData) ----
  buffer,           \* DapClient.buffer: the bytes not yet decoded
  stream,           \* the frames the peer wrote; how many bytes have arrived
  delivered,        \* the messages onData passed to handleMessage, in order
  \* ---- the event handlers of DapClient (dap/client.ts on/off/once) ----
  events,           \* eventHandlers, the promises of once, what was dispatched
  \* ---- the paused frames of NodeAdapter and the inspection calls ----
  inspect,          \* pausedFrames, scripts, the last event and the last call
  \* ---- calls of the manager modelled await by await ----
  creates,          \* manager.create calls, each at its await
  toolCalls,        \* set/remove_breakpoints calls at their await; the adapter
  \* ---- callers of DebugPhase ----
  heldStates        \* the State objects a caller has kept

mgrVars == <<activeSession, sessionCounter, adapters, mgrLast>>
bpVars  == <<breakpoints, breakpointIds, peerBp, lastCall, bpCalls, runtime>>
adVars  == <<session, adapter, waits, calls, startCall, stopCall, peer, inbox, link>>
phVars  == <<store, lastTransition, confirmEdges, toolCheck>>
corVars == <<client, promises, wire, socket, buffer, stream, delivered, events>>
callVars == <<inspect, creates, toolCalls, heldStates>>
otherVars == <<phVars, corVars, callVars>>
vars    == <<mgrVars, bpVars, adVars, otherVars>>

(***************************************************************************)
(* Sequence helpers.                                                       *)
(***************************************************************************)
Range(s) == {s[i] : i \in 1..Len(s)}

SeqMap(Op(_), s) == [i \in 1..Len(s) |-> Op(s[i])]

\* sequences over S of length 0..n
SeqsUpTo(S, n) == UNION {[1..k -> S] : k \in 0..n}

\* s has the suffix suf (String.prototype.endsWith on character sequences)
EndsWith(s, suf) ==
  /\ Len(suf) <= Len(s)
  /\ SubSeq(s, Len(s) - Len(suf) + 1, Len(s)) = suf

(***************************************************************************)
(* Session manager: session/manager.ts with adapter/registry.ts.  The      *)
(* adapters are kept coarse here: whether the child process runs and       *)
(* whether the transport is open.                                          *)
(***************************************************************************)
\* program paths, as character sequences so that endsWith is computed
ProgPy  == <<"/", "a", ".", "p", "y">>
ProgJs  == <<"/", "a", ".", "j", "s">>
ProgTsx == <<"/", "a", ".", "t", "s", "x">>
ProgTxt == <<"/", "a", ".", "t", "x", "t">>
ProgNone == <<>>
Programs ==
  {ProgPy, ProgJs, ProgTsx, ProgTxt, ProgNone,
   <<"/", "a", ".", "t", "s">>, <<"/", "a", ".", "m", "j", "s">>,
   <<"/", "a", ".", "c", "j", "s">>, <<"/", "a", ".", "j", "s", "x">>,
   <<"/", "a", ".", "r", "s">>, <<"/", "p", "y">>}

\* the type selectors a caller passes; "" asks for auto-detection
TypeArgs == {"", "node", "python", "ruby"}

\* registry.ts: the factories map
Factories == {"node", "python"}

Ext(chars) == <<".">> \o chars

\* a detectType that takes every program it does not know for Python
detectType_Default(program) ==
  IF \E e \in {<<"j", "s">>, <<"t", "s">>, <<"m", "j", "s">>, <<"c", "j", "s">>,
                <<"t", "s", "x">>, <<"j", "s", "x">>} :
       EndsWith(program, <<".">> \o e)
  THEN "node" ELSE "python"

\* registry.ts detectType; "" stands for the thrown 'Cannot auto-detect'
detectType(program) ==
  IF EndsWith(program, Ext(<<"p", "y">>)) THEN "python"
  ELSE IF \/ EndsWith(program, Ext(<<"j", "s">>))
          \/ EndsWith(program, Ext(<<"t", "s">>))
          \/ EndsWith(program, Ext(<<"m", "j", "s">>))
          \/ EndsWith(program, Ext(<<"c", "j", "s">>))
          \/ EndsWith(program, Ext(<<"t", "s", "x">>))
          \/ EndsWith(program, Ext(<<"j", "s", "x">>))
       THEN "node"
  ELSE ""

\* how adapter.start can end: before the child is spawned (debugpy missing,
\* no free port), after the spawn with no transport (port or discovery
\* timeout, connect failure), after the transport is open (a handshake
\* request fails), or with success
StartOutcomes == {"failBeforeSpawn", "failAfterSpawn", "failHandshake", "ok"}

\* the adapter as start leaves it
StartedAdapter(type, outcome) ==
  [type      |-> type,
   proc      |-> IF outcome = "failBeforeSpawn" THEN "none" ELSE "running",
   transport |-> IF outcome \in {"failHandshake", "ok"} THEN "open" ELSE "none"]

\* PythonAdapter.disconnect / NodeAdapter.disconnect on the coarse adapter:
\* close the transport if there is one, kill the child if there is one
DisconnectAdapter(a) ==
  [a EXCEPT !.transport = IF a.transport = "open" THEN "closed" ELSE @,
            !.proc      = IF a.proc = "running" THEN "killed" ELSE @]

\* the adapters after manager.stop(): the active one is disconnected
AdaptersAfterStop ==
  IF activeSession = 0 THEN adapters
  ELSE [adapters EXCEPT ![activeSession] = DisconnectAdapter(@)]

EmptyReg == [f \in {} |-> <<>>]

\* manager.create(config), run to its end: stop the active session, detect
\* the type, make the adapter and the session state, start the adapter
Create(type, program, outcome) ==
  /\ sessionCounter < MaxSessions
  /\ LET t == IF type = "" THEN detectType(program) ELSE type
     IN IF t = ""
        THEN /\ adapters' = AdaptersAfterStop
             /\ activeSession' = 0
             /\ mgrLast' = [op |-> "create", result |-> "CannotAutoDetect"]
             /\ UNCHANGED <<sessionCounter, breakpoints, breakpointIds>>
        ELSE IF t \notin Factories
        THEN /\ adapters' = AdaptersAfterStop
             /\ activeSession' = 0
             /\ mgrLast' = [op |-> "create", result |-> "UnknownAdapterType"]
             /\ UNCHANGED <<sessionCounter, breakpoints, breakpointIds>>
        ELSE /\ sessionCounter' = sessionCounter + 1
             /\ adapters' = Append(AdaptersAfterStop, StartedAdapter(t, outcome))
             /\ activeSession' = IF outcome = "ok" THEN sessionCounter + 1 ELSE 0
             /\ mgrLast' = [op |-> "create",
                            result |-> IF outcome = "ok" THEN "ok" ELSE "StartFailed"]
             /\ breakpoints' = EmptyReg
             /\ breakpointIds' = EmptyReg
  /\ UNCHANGED <<peerBp, lastCall, bpCalls, runtime>>

\* manager.stop()
Stop ==
  /\ adapters' = AdaptersAfterStop
  /\ activeSession' = 0
  /\ mgrLast' = [op |-> "stop",
                 result |-> IF activeSession = 0 THEN "noop" ELSE "stopped"]
  /\ UNCHANGED <<sessionCounter, bpVars>>

\* manager.requireActive(): FALSE stands for 'No active debug session'
requireActive == activeSession # 0

(***************************************************************************)
(* manager.create await by await.  A call runs to its next await: of       *)
(* stop() when a session is active, of adapter.start(config) otherwise;    *)
(* other calls may run in between.                                         *)
(***************************************************************************)
\* a session id that is one more than the N of the active session
NextSessionId_FromActive(counter) == activeSession + 1

\* `session-${++sessionCounter}`: the N of the id
NextSessionId(counter) == counter + 1

\* createAdapter(type): an adapter that was not started
NewAdapter(type) == [type |-> type, proc |-> "none", transport |-> "none"]

\* create from the type detection to the await of adapter.start, for call
\* record c, with adapters as and and the active slot as act
CreateGoesOn(c, and, act) ==
  LET t == IF c.type = "" THEN detectType(c.program) ELSE c.type
      n == NextSessionId(sessionCounter)
  IN IF t = "" \/ t \notin Factories
     THEN [call |-> [c EXCEPT !.pc = "failed",
                              !.result = IF t = "" THEN "CannotAutoDetect"
                                         ELSE "UnknownAdapterType"],
           adapters |-> and, counter |-> sessionCounter]
     ELSE [call |-> [c EXCEPT !.pc = "awaitStart", !.type = t, !.id = n,
                              !.adapter = Len(and) + 1],
           adapters |-> Append(and, NewAdapter(t)), counter |-> n]

\* no call of the manager in flight
CallsIdle ==
  /\ creates = <<>>
  /\ toolCalls = [calls |-> <<>>, queue |-> <<>>, applied |-> <<>>]
  /\ heldStates = {}

\* what a create call leaves alone
outsideCreate == <<peerBp, lastCall, bpCalls, runtime, adVars, phVars, corVars,
                   inspect, toolCalls, heldStates>>

\* manager.create(config) up to its first await.  With a session active it
\* is the await of stop(), whose disconnect() has run up to its own first
\* await: NodeAdapter.disconnect has none and is done, PythonAdapter's
\* awaits its disconnect request.
CreateBegins(type, program) ==
  /\ Len(creates) < MaxCreates
  /\ LET inFlight == {d \in DOMAIN creates : creates[d].pc = "awaitStart"}
         c == [pc |-> "awaitStop", type |-> type, program |-> program, id |-> 0,
               adapter |-> 0, stopping |-> activeSession, during |-> inFlight,
               result |-> "none"]
         go == CreateGoesOn(c, adapters, activeSession)
     IN IF activeSession # 0
        THEN /\ creates' = Append(creates, c)
             /\ adapters' = IF adapters[activeSession].type = "node"
                            THEN AdaptersAfterStop ELSE adapters
             /\ UNCHANGED <<activeSession, sessionCounter>>
        ELSE /\ creates' = Append(creates, go.call)
             /\ adapters' = go.adapters
             /\ sessionCounter' = go.counter
             /\ UNCHANGED activeSession
  /\ mgrLast' = [op |-> "create", result |-> "pending"]
  /\ UNCHANGED <<breakpoints, breakpointIds, outsideCreate>>

\* the await of stop() ends: disconnect() is done, stop assigns
\* activeSession = null, and create goes on to the await of adapter.start
CreateAfterStop(c) ==
  /\ creates[c].pc = "awaitStop"
  /\ LET stopped == [adapters EXCEPT ![creates[c].stopping] = DisconnectAdapter(@)]
         go == CreateGoesOn(creates[c], stopped, 0)
     IN /\ creates' = [creates EXCEPT ![c] = go.call]
        /\ adapters' = go.adapters
        /\ sessionCounter' = go.counter
  /\ activeSession' = 0
  /\ mgrLast' = [op |-> "create", result |-> "pending"]
  /\ UNCHANGED <<breakpoints, breakpointIds, outsideCreate>>

\* the await of adapter.start(config) ends: with success create assigns
\* activeSession = state and returns it, with a failure it throws
CreateAfterStart(c, outcome) ==
  /\ creates[c].pc = "awaitStart"
  /\ adapters' = [adapters EXCEPT
                    ![creates[c].adapter] = StartedAdapter(creates[c].type, outcome)]
  /\ IF outcome = "ok"
     THEN /\ activeSession' = creates[c].id
          /\ creates' = [creates EXCEPT ![c].pc = "returned", ![c].result = "ok"]
          /\ breakpoints' = EmptyReg
          /\ breakpointIds' = EmptyReg
     ELSE /\ creates' = [creates EXCEPT ![c].pc = "failed",
                                        ![c].result = "StartFailed"]
          /\ UNCHANGED <<activeSession, breakpoints, breakpointIds>>
  /\ mgrLast' = [op |-> "create",
                 result |-> IF outcome = "ok" THEN "ok" ELSE "StartFailed"]
  /\ UNCHANGED <<sessionCounter, outsideCreate>>


(***************************************************************************)
(* The breakpoint tools (tools/breakpoints.ts) over the registry of        *)
(* session/state.ts.  A request carries line and condition; column,        *)
(* hitCondition and logMessage travel through the same object spread as    *)
(* condition and are not told apart.                                       *)
(***************************************************************************)
Files == {"/tmp/a.js", "/tmp/b.js"}
Lines == 1..MaxLine
NoCond == "none"
Conds == {NoCond, "i>5"}

\* BreakpointResult.line / .id left undefined
NoLine == 0
NoId == -1

SourceBreakpoints == [line : Lines, condition : Conds]

\* what the runtime answers for a breakpoint requested at line l: an error,
\* no location, or the location it resolved the line to
PeerAnswers(l) ==
  {[kind |-> "err", line |-> NoLine], [kind |-> "none", line |-> NoLine]}
    \cup {[kind |-> "loc", line |-> m] : m \in {n \in Lines : n >= l}}

\* a failing request for one breakpoint is what Debugger.setBreakpointByUrl
\* can do; a DAP server answers every breakpoint of the list
PeerBpChoices(type) ==
  {f \in [Lines -> UNION {PeerAnswers(l) : l \in Lines}] :
     \A l \in Lines : /\ f[l] \in PeerAnswers(l)
                      /\ type = "python" => f[l].kind # "err"}

\* state.ts getBreakpointsForFile
getBreakpointsForFile(reg, file) ==
  IF file \in DOMAIN reg THEN reg[file] ELSE <<>>

\* setBreakpointsForFile without the delete of an emptied key
setBreakpointsForFile_KeepsEmpty(reg, file, list) ==
  [f \in (DOMAIN reg) \cup {file} |-> IF f = file THEN list ELSE reg[f]]

\* state.ts setBreakpointsForFile: an empty list deletes the key
setBreakpointsForFile(reg, file, list) ==
  IF list = <<>>
  THEN [f \in (DOMAIN reg) \ {file} |-> reg[f]]
  ELSE [f \in (DOMAIN reg) \cup {file} |-> IF f = file THEN list ELSE reg[f]]

\* state.ts getAllBreakpoints: the registry as a record file -> list
getAllBreakpoints(reg) == reg

\* state.ts toSourceBreakpoints
toSourceBreakpoints(infos) ==
  [i \in 1..Len(infos) |-> [line |-> infos[i].line, condition |-> infos[i].condition]]

\* Array.prototype.findIndex on e.line === line, 1-based, 0 for not found
FindIndex(list, line) ==
  IF \E i \in 1..Len(list) : list[i].line = line
  THEN CHOOSE i \in 1..Len(list) :
         /\ list[i].line = line
         /\ \A j \in 1..(i - 1) : list[j].line # line
  ELSE 0

\* { ...bp, verified: false }
NewInfo(bp) ==
  [line |-> bp.line, condition |-> bp.condition, verified |-> FALSE, id |-> NoId]

\* the merge loop of set_breakpoints, from request k on
RECURSIVE MergeFrom(_, _, _)
MergeFrom(merged, reqs, k) ==
  IF k > Len(reqs) THEN merged
  ELSE LET idx == FindIndex(merged, reqs[k].line)
       IN MergeFrom(IF idx > 0
                    THEN [merged EXCEPT ![idx] = NewInfo(reqs[k])]
                    ELSE Append(merged, NewInfo(reqs[k])),
                    reqs, k + 1)

Merge(existing, reqs) == MergeFrom(existing, reqs, 1)

\* NodeAdapter.setBreakpoints, the loop over the requested breakpoints: one
\* Debugger.setBreakpointByUrl each; a failed one is caught
RECURSIVE NodeResultsFrom(_, _, _)
NodeResultsFrom(results, bps, k) ==
  IF k > Len(bps) THEN results
  ELSE LET a == peerBp[bps[k].line]
           r == IF a.kind = "err"
                THEN [id |-> NoId, verified |-> FALSE, line |-> bps[k].line]
                ELSE [id |-> Len(results),
                      verified |-> a.kind = "loc",
                      line |-> IF a.kind = "loc" THEN a.line ELSE bps[k].line]
       IN NodeResultsFrom(Append(results, r), bps, k + 1)

NodeResults(bps) == NodeResultsFrom(<<>>, bps, 1)

\* the CDP breakpoint ids the loop records: one per successful request; the
\* runtime names a breakpoint after its requested position
RECURSIVE NodeNewIdsFrom(_, _, _)
NodeNewIdsFrom(ids, bps, k) ==
  IF k > Len(bps) THEN ids
  ELSE NodeNewIdsFrom(IF peerBp[bps[k].line].kind = "err" THEN ids
                      ELSE Append(ids, bps[k].line),
                      bps, k + 1)

NodeNewIds(bps) == NodeNewIdsFrom(<<>>, bps, 1)

\* PythonAdapter.setBreakpoints: the response's breakpoints, mapped; the
\* server numbers them by position
PythonResults(bps) ==
  [i \in 1..Len(bps) |->
     LET a == peerBp[bps[i].line]
     IN [id |-> i - 1,
         verified |-> a.kind = "loc",
         line |-> IF a.kind = "loc" THEN a.line ELSE NoLine]]

AdapterType == adapters[activeSession].type

\* adapter.setBreakpoints(file, bps) can throw: the DAP request fails, or a
\* Debugger.removeBreakpoint for a recorded id fails
AdapterMayThrow(file) ==
  \/ AdapterType = "python"
  \/ getBreakpointsForFile(breakpointIds, file) # <<>>

AdapterResults(bps) ==
  IF AdapterType = "python" THEN PythonResults(bps) ELSE NodeResults(bps)

\* NodeAdapter.breakpointIds after a completed setBreakpoints; the Python
\* adapter keeps no ids
IdsAfter(file, bps) ==
  IF AdapterType = "python" THEN breakpointIds
  ELSE [f \in (DOMAIN breakpointIds) \cup {file} |->
          IF f = file THEN NodeNewIds(bps) ELSE breakpointIds[f]]

\* results[i]?.x ?? default
ResultAt(results, i) ==
  IF i <= Len(results) THEN results[i]
  ELSE [id |-> NoId, verified |-> FALSE, line |-> NoLine]

\* set_breakpoints: the list stored after the adapter answered
UpdatedSet(merged, results) ==
  [i \in 1..Len(merged) |->
     LET r == ResultAt(results, i)
     IN [line |-> IF r.line # NoLine THEN r.line ELSE merged[i].line,
         condition |-> merged[i].condition,
         verified |-> r.verified,
         id |-> r.id]]

\* remove_breakpoints: the stored line is kept
UpdatedRemove(remaining, results) ==
  [i \in 1..Len(remaining) |->
     LET r == ResultAt(results, i)
     IN [line |-> remaining[i].line,
         condition |-> remaining[i].condition,
         verified |-> r.verified,
         id |-> r.id]]

NoLines == [given |-> FALSE, vals |-> {}]

\* the record of a tool call; the arguments and the list handed to the
\* adapter are kept for the calls that completed
CallRecord(op, file, reqs, lines, sent, outcome) ==
  [op |-> op, file |-> file, reqs |-> reqs, lines |-> lines,
   sent |-> sent, outcome |-> outcome,
   nBefore |-> IF outcome = "ok" /\ op # "list"
               THEN Len(getBreakpointsForFile(breakpoints, file)) ELSE 0]

\* breakpoints held over all files
RECURSIVE TotalOver(_, _)
TotalOver(reg, fs) ==
  IF fs = {} THEN 0
  ELSE LET f == CHOOSE g \in fs : TRUE
       IN Len(reg[f]) + TotalOver(reg, fs \ {f})

Total(reg) == TotalOver(reg, DOMAIN reg)

NotSent == [made |-> FALSE, list |-> <<>>]
Sent(list) == [made |-> TRUE, list |-> list]

\* the set_breakpoints tool handler
SetBreakpoints(file, reqs, throws) ==
  LET existing == getBreakpointsForFile(breakpoints, file)
      merged == Merge(existing, reqs)
      src == toSourceBreakpoints(merged)
  IN IF ~requireActive
     THEN /\ ~throws
          /\ lastCall' = CallRecord("set", file, <<>>, NoLines, NotSent,
                                    "NoActiveSession")
          /\ UNCHANGED <<breakpoints, breakpointIds>>
     ELSE /\ Total(setBreakpointsForFile(breakpoints, file, merged)) <= MaxList
          /\ IF throws
             THEN /\ AdapterMayThrow(file)
                  /\ lastCall' = CallRecord("set", file, <<>>, NoLines,
                                            NotSent, "AdapterError")
                  /\ UNCHANGED <<breakpoints, breakpointIds>>
             ELSE /\ breakpoints' = setBreakpointsForFile(breakpoints, file,
                                      UpdatedSet(merged, AdapterResults(src)))
                  /\ breakpointIds' = IdsAfter(file, src)
                  /\ lastCall' = CallRecord("set", file, reqs, NoLines,
                                            Sent(src), "ok")

\* the remove_breakpoints tool handler; lines.given is FALSE when the caller
\* omits lines
RemoveBreakpoints(file, lines, throws) ==
  LET existing == getBreakpointsForFile(breakpoints, file)
      remaining == IF lines.given
                   THEN SelectSeq(existing, LAMBDA bp : bp.line \notin lines.vals)
                   ELSE <<>>
      src == toSourceBreakpoints(remaining)
  IN IF ~requireActive
     THEN /\ ~throws
          /\ lastCall' = CallRecord("remove", file, <<>>, NoLines, NotSent,
                                    "NoActiveSession")
          /\ UNCHANGED <<breakpoints, breakpointIds>>
     ELSE IF throws
     THEN /\ AdapterMayThrow(file)
          /\ lastCall' = CallRecord("remove", file, <<>>, NoLines,
                                    NotSent, "AdapterError")
          /\ UNCHANGED <<breakpoints, breakpointIds>>
     ELSE /\ breakpoints' =
               IF Len(remaining) > 0
               THEN setBreakpointsForFile(breakpoints, file,
                      UpdatedRemove(remaining, AdapterResults(src)))
               ELSE setBreakpointsForFile(breakpoints, file, <<>>)
          /\ breakpointIds' = IdsAfter(file, src)
          /\ lastCall' = CallRecord("remove", file, <<>>, lines,
                                    Sent(src), "ok")

\* the list_breakpoints tool handler
ListBreakpoints ==
  /\ lastCall' = CallRecord("list", "", <<>>, NoLines, NotSent,
                            IF requireActive THEN "ok" ELSE "NoActiveSession")
  /\ UNCHANGED <<breakpoints, breakpointIds>>

\* what list_breakpoints shows
Listed == getAllBreakpoints(breakpoints)

LineArgs == {NoLines} \cup {[given |-> TRUE, vals |-> S] : S \in SUBSET Lines}

NoCall == CallRecord("none", "", <<>>, NoLines, NotSent, "ok")

(***************************************************************************)
(* set_breakpoints and remove_breakpoints await by await.  A call runs to  *)
(* its await of adapter.setBreakpoints; the adapter takes the lists in the *)
(* order they were handed to it, each as a whole; a call goes on once its  *)
(* answer is there, and the calls that have their answer go on in any      *)
(* order.                                                                  *)
(***************************************************************************)
\* a merge loop that works on the stored list itself
RegistryAfterMerge_InPlace(reg, file, merged) ==
  IF file \in DOMAIN reg THEN [reg EXCEPT ![file] = merged] ELSE reg

\* const merged = [...existing]: the loop writes to a copy, the registry is
\* as it was
RegistryAfterMerge(reg, file, merged) == reg

\* a tool call at its await of adapter.setBreakpoints(file, list)
NewToolCall(op, file, reqs, lines, list) ==
  [op |-> op, file |-> file, reqs |-> reqs, lines |-> lines, list |-> list,
   pc |-> IF requireActive THEN "awaitAdapter" ELSE "failed",
   error |-> IF requireActive THEN "" ELSE "NoActiveSession",
   results |-> <<>>, stored |-> <<>>,
   during |-> {d \in DOMAIN toolCalls.calls :
                 toolCalls.calls[d].pc \in {"awaitAdapter", "answered", "rejected"}}]

\* the call is handed to the adapter
Enqueue(tc, call) ==
  [tc EXCEPT !.calls = Append(@, call),
             !.queue = IF call.pc = "awaitAdapter"
                       THEN Append(@, Len(tc.calls) + 1) ELSE @]

\* what the tool calls and the adapter leave alone
outsideTools ==
  <<mgrVars, peerBp, lastCall, bpCalls, runtime, adVars, phVars, corVars,
    inspect, creates, heldStates>>

\* set_breakpoints up to its await
ToolSetBegins(file, reqs) ==
  /\ Len(toolCalls.calls) < MaxToolCalls
  /\ LET existing == getBreakpointsForFile(breakpoints, file)
         merged == Merge(existing, reqs)
     IN /\ toolCalls' = Enqueue(toolCalls,
                                NewToolCall("set", file, reqs, NoLines, merged))
        /\ breakpoints' = IF requireActive
                          THEN RegistryAfterMerge(breakpoints, file, merged)
                          ELSE breakpoints
  /\ UNCHANGED <<breakpointIds, outsideTools>>

\* remove_breakpoints up to its await, which either branch has
ToolRemoveBegins(file, lines) ==
  /\ Len(toolCalls.calls) < MaxToolCalls
  /\ LET existing == getBreakpointsForFile(breakpoints, file)
         remaining == IF lines.given
                      THEN SelectSeq(existing, LAMBDA bp : bp.line \notin lines.vals)
                      ELSE <<>>
     IN toolCalls' = Enqueue(toolCalls,
                             NewToolCall("remove", file, <<>>, lines, remaining))
  /\ UNCHANGED <<breakpoints, breakpointIds, outsideTools>>

\* adapter.setBreakpoints for the list handed over first: the adapter
\* applies it and answers, or the request fails
AdapterAnswers ==
  /\ toolCalls.queue # <<>>
  /\ \E ok \in BOOLEAN :
       LET c == Head(toolCalls.queue)
           call == toolCalls.calls[c]
           src == toSourceBreakpoints(call.list)
           applied == [list |-> src, by |-> c]
       IN /\ ~ok => AdapterMayThrow(call.file)
          /\ toolCalls' =
               [toolCalls EXCEPT
                  !.queue = Tail(@),
                  !.calls[c].pc = IF ok THEN "answered" ELSE "rejected",
                  !.calls[c].error = IF ok THEN "" ELSE "AdapterError",
                  !.calls[c].results = IF ok THEN AdapterResults(src) ELSE <<>>,
                  !.applied = IF ok
                              THEN [f \in DOMAIN @ \cup {call.file} |->
                                      IF f = call.file THEN applied ELSE @[f]]
                              ELSE @]
          /\ breakpointIds' = IF ok THEN IdsAfter(call.file, src) ELSE breakpointIds
  /\ UNCHANGED <<breakpoints, outsideTools>>

\* the await of call c ends: with the results the handler stores the list
\* and returns, with the error it throws
ToolGoesOn(c) ==
  /\ toolCalls.calls[c].pc \in {"answered", "rejected"}
  /\ LET call == toolCalls.calls[c]
         updated == IF call.op = "set" THEN UpdatedSet(call.list, call.results)
                    ELSE IF Len(call.list) > 0
                    THEN UpdatedRemove(call.list, call.results)
                    ELSE <<>>
     IN IF call.pc = "answered"
        THEN /\ breakpoints' = setBreakpointsForFile(breakpoints, call.file, updated)
             /\ toolCalls' = [toolCalls EXCEPT !.calls[c].pc = "returned",
                                               !.calls[c].stored = updated]
        ELSE /\ toolCalls' = [toolCalls EXCEPT !.calls[c].pc = "failed"]
             /\ UNCHANGED breakpoints
  /\ UNCHANGED <<breakpointIds, outsideTools>>

(***************************************************************************)
(* One session and its adapter: adapter/python.ts (PythonAdapter over      *)
(* dap/client.ts) and NodeAdapter, with the tools that drive them and the  *)
(* peer they talk to.  A wait is the promise made by waitForStop /         *)
(* waitForPause; wait 1 is the one start arms, the others are armed by     *)
(* continue/step calls.  The 30 s timer of a wait may fire at any moment   *)
(* at which it is armed.                                                   *)
(***************************************************************************)
\* null of stoppedThreadId, and a stopped event body without threadId
NoThread == 0
\* null of stoppedReason
NoReason == "null"
\* null of initialPausePromise, and of the wait of a call that armed none
NoPromise == 0
\* the callback manager.create registers with adapter.onStopped
SessionListener == 0

Ops == {"continue", "stepOver", "stepIn", "stepOut"}

\* the requests start awaits one after the other
Handshake(type) ==
  IF type = "python" THEN <<"initialize", "launch", "configurationDone">>
  ELSE <<"Debugger.enable", "Runtime.enable">>

\* the request a continue/step call writes
ResumeCommand(type, op) ==
  IF type = "python"
  THEN CASE op = "continue" -> "continue"
         [] op = "stepOver" -> "next"
         [] op = "stepIn"   -> "stepIn"
         [] op = "stepOut"  -> "stepOut"
  ELSE CASE op = "continue" -> "Debugger.resume"
         [] op = "stepOver" -> "Debugger.stepOver"
         [] op = "stepIn"   -> "Debugger.stepInto"
         [] op = "stepOut"  -> "Debugger.stepOut"

\* the message of the error the timer of a wait rejects with
TimeoutMessage(type) ==
  IF type = "python" THEN "Timed out waiting for debugger to stop"
  ELSE "Timed out waiting for debugger to pause"

\* reason of a stopped/paused event body; "" is a body without reason
EventReasons == {"", "step"}

\* (body.reason as string) ?? "breakpoint"
ReasonOf(m) == IF m.reason = "" THEN "breakpoint" ELSE m.reason

\* a StopResult (reason, threadId) or the error thrown
NoResult == [kind |-> "none", detail |-> "", threadId |-> NoThread]
StoppedResult(reason, threadId) ==
  [kind |-> "stopped", detail |-> reason, threadId |-> threadId]
TerminatedResult ==
  [kind |-> "terminated", detail |-> "terminated", threadId |-> NoThread]
ErrorResult(message) ==
  [kind |-> "error", detail |-> message, threadId |-> NoThread]

\* a wait as waitForStop / waitForPause leaves it.  state: armed, fetching
\* (the Python handler awaits the stack trace), resolved, rejected.  late
\* and missed are history: a handler of the wait ran after its cleanup, an
\* event that settles waits went by the armed wait.
NewWait ==
  [state |-> "armed", timer |-> "armed", result |-> NoResult,
   late |-> FALSE, missed |-> "none"]

\* { reason: "entry", location: undefined } of waitForInitialPause
EntrySentinel == StoppedResult("entry", NoThread)

\* no waitForInitialPause call besides the one of start_debug_session
NoAgain == [state |-> "none", result |-> NoResult, firstDone |-> FALSE]

\* the state the constructors leave: no session, an adapter not started
AdapterIdle ==
  /\ session = [stoppedThreadId |-> NoThread, stoppedReason |-> NoReason]
  /\ adapter = [type |-> "none", client |-> FALSE, process |-> FALSE,
                stoppedCallbacks |-> <<>>, termHandlers |-> {},
                exitListeners |-> {}, initialPausePromise |-> NoPromise,
                threadId |-> 1, seq |-> 1, pending |-> {}]
  /\ waits = <<>>
  /\ calls = <<>>
  /\ startCall = [pc |-> "none", step |-> 0, result |-> NoResult,
                  again |-> NoAgain]
  /\ stopCall = "none"
  /\ peer = [child |-> "none", dbg |-> "none", toPeer |-> <<>>, stops |-> 0]
  /\ inbox = <<>>
  /\ link = [sock |-> "none", closeEvt |-> "none", exitEvt |-> "none"]

\* a waitForStop that registers no stop handler
PushHandler_Skipped(cbs, w) == cbs

\* stoppedCallbacks.push(handler)
PushHandler(cbs, w) == Append(cbs, w)

\* waitForStop / waitForPause: the registrations of wait w on adapter a
WaitForStop(a, w) ==
  [a EXCEPT !.stoppedCallbacks = PushHandler(@, w),
            !.termHandlers = IF a.type = "python" /\ a.client
                             THEN @ \cup {w} ELSE @,
            !.exitListeners = IF a.process THEN @ \cup {w} ELSE @]

\* cleanup() of the waits in W: splice the handlers, client?.off,
\* process?.removeListener
Cleanup(a, W) ==
  [a EXCEPT !.stoppedCallbacks = SelectSeq(@, LAMBDA cb : cb \notin W),
            !.termHandlers = IF a.client THEN @ \ W ELSE @,
            !.exitListeners = IF a.process THEN @ \ W ELSE @]

\* clearTimeout(timer)
ClearTimer(wt) == [wt EXCEPT !.timer = IF @ = "armed" THEN "cancelled" ELSE @]

RemoveAt(s, i) == SubSeq(s, 1, i - 1) \o SubSeq(s, i + 1, Len(s))

\* for (const cb of this.stoppedCallbacks) cb(info): the callbacks invoked,
\* in order.  The loop walks the live array by index and the handler of a
\* wait splices itself out of it.
RECURSIVE FanOut(_, _, _)
FanOut(cbs, i, invoked) ==
  IF i > Len(cbs) THEN invoked
  ELSE IF cbs[i] = SessionListener
       THEN FanOut(cbs, i + 1, Append(invoked, cbs[i]))
       ELSE FanOut(RemoveAt(cbs, i), i + 1, Append(invoked, cbs[i]))

\* DapClient.sendRequest / cdpSend: take the next seq and keep the
\* continuation: kind of request and the call or wait that awaits it
SendRequest(a, kind, ref) ==
  [a EXCEPT !.seq = @ + 1,
            !.pending = @ \cup {[seq |-> a.seq, kind |-> kind, ref |-> ref]}]

\* socket.write / ws.send: the request reaches the peer if the connection
\* is open and the child runs
Written(p, seq, kind, command) ==
  IF link.sock = "open" /\ p.child = "running"
  THEN [p EXCEPT !.toPeer = Append(@, [seq |-> seq, kind |-> kind,
                                       command |-> command])]
  ELSE p

\* the promise of a call that awaits its wait: `return stopPromise`
SettleCalls(cs, ws) ==
  [c \in DOMAIN cs |->
     IF cs[c].state = "awaitPause" /\ ws[cs[c].wait].state \in {"resolved", "rejected"}
     THEN [cs[c] EXCEPT !.state = "returned", !.result = ws[cs[c].wait].result]
     ELSE cs[c]]

\* start_debug_session, and a further caller, awaiting
\* adapter.waitForInitialPause()
SettleStart(sc, ws) ==
  IF ws # <<>> /\ ws[1].state \in {"resolved", "rejected"}
  THEN LET end == IF ws[1].state = "resolved" THEN "returned" ELSE "failed"
       IN [sc EXCEPT
             !.pc = IF @ = "awaitInitial" THEN end ELSE @,
             !.result = IF sc.pc = "awaitInitial" THEN ws[1].result ELSE @,
             !.again = IF @.state = "awaiting"
                       THEN [@ EXCEPT !.state = end, !.result = ws[1].result]
                       ELSE @]
  ELSE sc

\* waitForInitialPause: this.initialPausePromise = null after the await
ClearInitial(a, sc, ws) ==
  [a EXCEPT !.initialPausePromise =
     IF /\ sc.pc = "awaitInitial" \/ sc.again.state = "awaiting"
        /\ ws # <<>> /\ ws[1].state = "resolved"
     THEN NoPromise ELSE @]

\* client.disconnect() (socket.destroy) / ws.close()
LocalClose(l) ==
  IF l.sock \in {"open", "peerClosed"}
  THEN [l EXCEPT !.sock = "localClosed", !.closeEvt = "pending"]
  ELSE l

\* process.kill(): a running child exits and emits exit
KillLink(l, p) ==
  [l EXCEPT !.exitEvt = IF p.child = "running" THEN "pending" ELSE @]

KillPeer(p) ==
  IF p.child = "running"
  THEN [p EXCEPT !.child = "exited", !.dbg = "exited", !.toPeer = <<>>]
  ELSE p

\* the tail of PythonAdapter.disconnect, after the disconnect request
\* settled, or NodeAdapter.disconnect: close, null the client, kill, null
\* the process
AfterDisconnect(a) == [a EXCEPT !.client = FALSE, !.process = FALSE]

DisconnectLink(a, l, p) ==
  LET l1 == IF a.client THEN LocalClose(l) ELSE l
  IN IF a.process THEN KillLink(l1, p) ELSE l1

DisconnectPeer(a, p) == IF a.process THEN KillPeer(p) ELSE p

\* what the session and adapter actions leave alone
outsideAd == <<adapters, mgrLast, bpVars, otherVars>>

Response(seq, ok) ==
  [type |-> "response", seq |-> seq, ok |-> ok, event |-> "", reason |-> "",
   thread |-> NoThread]

Event(name, reason, thread) ==
  [type |-> "event", seq |-> 0, ok |-> TRUE, event |-> name, reason |-> reason,
   thread |-> thread]

\* start_debug_session: manager.create up to the first await of
\* adapter.start on a request.  Node arms the initial wait before the spawn,
\* Python after the connect.
StartSession(t) ==
  /\ startCall.pc = "none"
  /\ ~requireActive
  /\ sessionCounter' = sessionCounter + 1
  /\ session' = [stoppedThreadId |-> NoThread, stoppedReason |-> NoReason]
  /\ LET a0 == [adapter EXCEPT !.type = t,
                               !.stoppedCallbacks = <<SessionListener>>]
         a1 == IF t = "node"
               THEN [WaitForStop(a0, 1) EXCEPT !.process = TRUE, !.client = TRUE]
               ELSE WaitForStop([a0 EXCEPT !.process = TRUE, !.client = TRUE], 1)
         a2 == [a1 EXCEPT !.initialPausePromise = 1]
     IN /\ adapter' = SendRequest(a2, "handshake", 1)
        /\ peer' = [child |-> "running", dbg |-> "running", stops |-> 0,
                    toPeer |-> <<[seq |-> a2.seq, kind |-> "handshake",
                                  command |-> Handshake(t)[1]]>>]
  /\ waits' = <<NewWait>>
  /\ startCall' = [startCall EXCEPT !.pc = "handshake", !.step = 1]
  /\ link' = [sock |-> "open", closeEvt |-> "none", exitEvt |-> "none"]
  /\ UNCHANGED <<activeSession, calls, stopCall, inbox, outsideAd>>

\* adapter.waitForInitialPause() called once more, at any time: the
\* sentinel without a promise, else the await of initialPausePromise.
\* firstDone: the call of start_debug_session had completed, with the stop
\* or with the error of the timer.
WaitForInitialPause ==
  /\ startCall.again.state = "none"
  /\ LET firstDone ==
           \/ startCall.pc = "returned"
           \/ /\ startCall.pc = "failed"
              /\ startCall.result = ErrorResult(TimeoutMessage(adapter.type))
         awaiting == [state |-> "awaiting", result |-> NoResult,
                      firstDone |-> firstDone]
         sc == [startCall EXCEPT !.again = awaiting]
     IN IF adapter.initialPausePromise = NoPromise
        THEN /\ startCall' = [startCall EXCEPT
                                !.again = [state |-> "returned",
                                           result |-> EntrySentinel,
                                           firstDone |-> firstDone]]
             /\ UNCHANGED adapter
        ELSE /\ startCall' = SettleStart(sc, waits)
             /\ adapter' = ClearInitial(adapter, sc, waits)
  /\ UNCHANGED <<activeSession, sessionCounter, session, waits, calls, stopCall,
                 peer, inbox, link, outsideAd>>

NewCall(op, w, state, result, written, listening) ==
  [op |-> op, wait |-> w, state |-> state, result |-> result,
   written |-> written, listening |-> listening, stopDuring |-> FALSE]

\* continue_execution / step_over / step_into / step_out: the tool handler
\* and adapter.continue/stepOver/stepIn/stepOut up to the await of the
\* resume request
ControlFlow(op) ==
  /\ Len(calls) < MaxCalls
  /\ requireActive
  /\ IF adapter.type = "python" /\ ~adapter.client
     THEN /\ calls' = Append(calls, NewCall(op, NoPromise, "returned",
                               ErrorResult("Not connected"), FALSE, FALSE))
          /\ UNCHANGED <<adapter, waits, peer>>
     ELSE LET w == Len(waits) + 1
              a1 == WaitForStop(adapter, w)
              listening == w \in Range(a1.stoppedCallbacks)
          IN /\ waits' = Append(waits, NewWait)
             /\ IF a1.client
                THEN /\ adapter' = SendRequest(a1, "resume", Len(calls) + 1)
                     /\ peer' = Written(peer, a1.seq, "resume",
                                        ResumeCommand(adapter.type, op))
                     /\ calls' = Append(calls, NewCall(op, w, "awaitResume",
                                          NoResult, TRUE, listening))
                ELSE /\ adapter' = a1
                     /\ peer' = peer
                     /\ calls' = Append(calls, NewCall(op, w, "returned",
                                          ErrorResult("Not connected"),
                                          FALSE, listening))
  /\ UNCHANGED <<activeSession, sessionCounter, session, startCall, stopCall,
                 inbox, link, outsideAd>>

\* stop_debug_session: manager.stop and adapter.disconnect.  The Python
\* adapter first awaits its disconnect request; the Node adapter closes
\* and kills at once.
StopSession ==
  /\ stopCall = "none"
  /\ requireActive
  /\ calls' = [c \in DOMAIN calls |->
                 IF calls[c].state # "returned"
                 THEN [calls[c] EXCEPT !.stopDuring = TRUE] ELSE calls[c]]
  /\ IF adapter.type = "python" /\ adapter.client
     THEN /\ adapter' = SendRequest(adapter, "disconnect", NoPromise)
          /\ peer' = Written(peer, adapter.seq, "disconnect", "disconnect")
          /\ stopCall' = "awaitDisconnect"
          /\ UNCHANGED <<activeSession, link>>
     ELSE /\ adapter' = AfterDisconnect(adapter)
          /\ link' = DisconnectLink(adapter, link, peer)
          /\ peer' = DisconnectPeer(adapter, peer)
          /\ activeSession' = 0
          /\ stopCall' = "done"
  /\ UNCHANGED <<sessionCounter, session, waits, startCall, inbox, outsideAd>>

\* the peer answers the oldest request it holds, with success or an error
PeerHandle ==
  /\ peer.child = "running"
  /\ peer.toPeer # <<>>
  /\ \E ok \in BOOLEAN :
       LET r == Head(peer.toPeer)
       IN /\ peer' = [peer EXCEPT
                        !.toPeer = Tail(@),
                        !.dbg = IF r.kind = "resume" /\ ok /\ @ = "paused"
                                THEN "running" ELSE @]
          /\ inbox' = IF link.sock = "open"
                      THEN Append(inbox, Response(r.seq, ok)) ELSE inbox
  /\ UNCHANGED <<activeSession, sessionCounter, session, adapter, waits, calls,
                 startCall, stopCall, link, outsideAd>>

\* the debuggee pauses: a DAP stopped event, with or without threadId, or
\* a CDP Debugger.paused, which has none.  DAP reports the stop of each
\* thread, so a further thread may stop while the debuggee is paused.
PeerPause ==
  /\ peer.child = "running"
  /\ \/ peer.dbg = "running"
     \/ adapter.type = "python" /\ peer.dbg = "paused"
  /\ peer.stops < MaxStops
  /\ link.sock = "open"
  /\ \E reason \in EventReasons,
        thread \in IF adapter.type = "python" THEN {NoThread, 2} ELSE {NoThread} :
       inbox' = Append(inbox, Event("stopped", reason, thread))
  /\ peer' = [peer EXCEPT !.dbg = "paused", !.stops = @ + 1]
  /\ UNCHANGED <<activeSession, sessionCounter, session, adapter, waits, calls,
                 startCall, stopCall, link, outsideAd>>

\* the debuggee ends and the debug server says so: a DAP terminated event
PeerTerminated ==
  /\ adapter.type = "python"
  /\ peer.child = "running"
  /\ peer.dbg \in {"running", "paused"}
  /\ link.sock = "open"
  /\ inbox' = Append(inbox, Event("terminated", "", NoThread))
  /\ peer' = [peer EXCEPT !.dbg = "exited"]
  /\ UNCHANGED <<activeSession, sessionCounter, session, adapter, waits, calls,
                 startCall, stopCall, link, outsideAd>>

\* the child process exits by itself; its end of the connection closes
PeerExit ==
  /\ peer.child = "running"
  /\ peer' = KillPeer(peer)
  /\ link' = [link EXCEPT !.exitEvt = "pending",
                          !.sock = IF @ = "open" THEN "peerClosed" ELSE @,
                          !.closeEvt = IF link.sock = "open" THEN "pending" ELSE @]
  /\ UNCHANGED <<activeSession, sessionCounter, session, adapter, waits, calls,
                 startCall, stopCall, inbox, outsideAd>>

\* a message can be read: onData / ws.onmessage still run
CanRead ==
  /\ inbox # <<>>
  /\ link.sock \in {"open", "peerClosed", "localClosed"}

\* the pending entry a response settles (handleMessage / handleCdpMessage)
PendingFor(m, kind) ==
  {p \in adapter.pending : p.seq = m.seq /\ p.kind = kind}

Unpend(a, m) == [a EXCEPT !.pending = {q \in @ : q.seq # m.seq}]

\* the response to a request of start arrives: start goes on to its next
\* request, or returns, and then create stores the session and the tool
\* awaits waitForInitialPause; an error response makes start throw
DeliverHandshake ==
  /\ CanRead
  /\ Head(inbox).type = "response"
  /\ PendingFor(Head(inbox), "handshake") # {}
  /\ LET m == Head(inbox)
         a1 == Unpend(adapter, m)
         hs == Handshake(adapter.type)
         sc == [startCall EXCEPT !.pc = "awaitInitial"]
     IN IF ~m.ok
        THEN /\ startCall' = [startCall EXCEPT !.pc = "failed",
                                !.result = ErrorResult("Request failed")]
             /\ adapter' = a1
             /\ UNCHANGED <<activeSession, peer>>
        ELSE IF startCall.step < Len(hs)
        THEN IF a1.client
             THEN /\ adapter' = SendRequest(a1, "handshake", startCall.step + 1)
                  /\ peer' = Written(peer, a1.seq, "handshake",
                                     hs[startCall.step + 1])
                  /\ startCall' = [startCall EXCEPT !.step = @ + 1]
                  /\ UNCHANGED activeSession
             ELSE /\ startCall' = [startCall EXCEPT !.pc = "failed",
                                     !.result = ErrorResult("Not connected")]
                  /\ adapter' = a1
                  /\ UNCHANGED <<activeSession, peer>>
        ELSE /\ activeSession' = sessionCounter
             /\ startCall' = SettleStart(sc, waits)
             /\ adapter' = ClearInitial(a1, sc, waits)
             /\ UNCHANGED peer
  /\ inbox' = Tail(inbox)
  /\ UNCHANGED <<sessionCounter, session, waits, calls, stopCall, link, outsideAd>>

\* the response to a resume request arrives: the call goes on to
\* `return stopPromise`, or throws the error of the response
DeliverResume ==
  /\ CanRead
  /\ Head(inbox).type = "response"
  /\ PendingFor(Head(inbox), "resume") # {}
  /\ LET m == Head(inbox)
         c == (CHOOSE p \in PendingFor(m, "resume") : TRUE).ref
     IN /\ adapter' = Unpend(adapter, m)
        /\ calls' = IF m.ok
                    THEN SettleCalls([calls EXCEPT ![c].state = "awaitPause"], waits)
                    ELSE [calls EXCEPT ![c].state = "returned",
                                       ![c].result = ErrorResult("Request failed")]
  /\ inbox' = Tail(inbox)
  /\ UNCHANGED <<activeSession, sessionCounter, session, waits, startCall,
                 stopCall, peer, link, outsideAd>>

\* the response to the stackTrace request of a Python stop handler arrives:
\* the handler resolves its wait, with or without a location
DeliverStackTrace ==
  /\ CanRead
  /\ Head(inbox).type = "response"
  /\ PendingFor(Head(inbox), "stackTrace") # {}
  /\ LET m == Head(inbox)
         w == (CHOOSE p \in PendingFor(m, "stackTrace") : TRUE).ref
         ws == IF waits[w].state = "fetching"
               THEN [waits EXCEPT ![w].state = "resolved"] ELSE waits
     IN /\ waits' = ws
        /\ calls' = SettleCalls(calls, ws)
        /\ startCall' = SettleStart(startCall, ws)
        /\ adapter' = ClearInitial(Unpend(adapter, m), startCall, ws)
  /\ inbox' = Tail(inbox)
  /\ UNCHANGED <<activeSession, sessionCounter, session, stopCall, peer, link,
                 outsideAd>>

\* the response to the disconnect request of PythonAdapter.disconnect
\* arrives, success or not: the socket is destroyed, the child killed, and
\* manager.stop clears the slot
DeliverDisconnect ==
  /\ CanRead
  /\ Head(inbox).type = "response"
  /\ PendingFor(Head(inbox), "disconnect") # {}
  /\ adapter' = AfterDisconnect(Unpend(adapter, Head(inbox)))
  /\ link' = DisconnectLink(adapter, link, peer)
  /\ peer' = DisconnectPeer(adapter, peer)
  /\ inbox' = <<>>
  /\ activeSession' = 0
  /\ stopCall' = "done"
  /\ UNCHANGED <<sessionCounter, session, waits, calls, startCall, outsideAd>>

RECURSIVE SendStackTraces(_, _, _)
SendStackTraces(a, order, k) ==
  IF k > Len(order) THEN a
  ELSE SendStackTraces(SendRequest(a, "stackTrace", order[k]), order, k + 1)

RECURSIVE WriteStackTraces(_, _, _, _)
WriteStackTraces(p, seq0, order, k) ==
  IF k > Len(order) THEN p
  ELSE WriteStackTraces(Written(p, seq0 + k - 1, "stackTrace", "stackTrace"),
                        seq0, order, k + 1)

\* a stopped / Debugger.paused event arrives: the client.on("stopped")
\* callback of start, or onPaused, runs the callbacks.  The callback of the
\* manager writes the session; the handler of a wait cleans up and, for
\* Node, resolves; for Python it first asks for the stack trace.
DeliverStopped ==
  /\ CanRead
  /\ Head(inbox).type = "event"
  /\ Head(inbox).event = "stopped"
  /\ LET m == Head(inbox)
         reason == ReasonOf(m)
         tid == IF adapter.type = "python" /\ m.thread # NoThread
                THEN m.thread ELSE 1
         invoked == FanOut(adapter.stoppedCallbacks, 1, <<>>)
         order == SelectSeq(invoked, LAMBDA cb : cb # SessionListener)
         W == Range(order)
         skipped == Range(adapter.stoppedCallbacks) \ Range(invoked)
         fetch == adapter.type = "python" /\ adapter.client
         a1 == Cleanup([adapter EXCEPT !.threadId = tid], W)
         ws == [w \in DOMAIN waits |->
                  IF w \in W
                  THEN [ClearTimer(waits[w]) EXCEPT
                          !.state = IF fetch THEN "fetching" ELSE "resolved",
                          !.result = StoppedResult(reason, tid)]
                  ELSE IF w \in skipped
                  THEN [waits[w] EXCEPT !.missed = "stopped"]
                  ELSE waits[w]]
     IN /\ session' = IF SessionListener \in Range(invoked)
                      THEN [stoppedThreadId |-> tid, stoppedReason |-> reason]
                      ELSE session
        /\ waits' = ws
        /\ calls' = SettleCalls(calls, ws)
        /\ startCall' = SettleStart(startCall, ws)
        /\ adapter' = ClearInitial(IF fetch THEN SendStackTraces(a1, order, 1)
                                   ELSE a1, startCall, ws)
        /\ peer' = IF fetch THEN WriteStackTraces(peer, a1.seq, order, 1) ELSE peer
  /\ inbox' = Tail(inbox)
  /\ UNCHANGED <<activeSession, sessionCounter, stopCall, link, outsideAd>>

\* a wait whose terminatedHandler / exitHandler runs: an unsettled one is
\* resolved as terminated; for one already cleaned up the run is late
Terminate(wt) ==
  IF wt.state = "armed"
  THEN [ClearTimer(wt) EXCEPT !.state = "resolved", !.result = TerminatedResult]
  ELSE IF wt.state = "fetching"
  THEN [wt EXCEPT !.state = "resolved", !.result = TerminatedResult, !.late = TRUE]
  ELSE [wt EXCEPT !.late = TRUE]

\* a DAP terminated event arrives: the terminatedHandler of every wait
\* registered with the client runs
DeliverTerminated ==
  /\ CanRead
  /\ Head(inbox).type = "event"
  /\ Head(inbox).event = "terminated"
  /\ LET W == adapter.termHandlers
         ws == [w \in DOMAIN waits |->
                  IF w \in W THEN Terminate(waits[w]) ELSE waits[w]]
     IN /\ waits' = ws
        /\ calls' = SettleCalls(calls, ws)
        /\ startCall' = SettleStart(startCall, ws)
        /\ adapter' = ClearInitial(Cleanup(adapter, W), startCall, ws)
  /\ inbox' = Tail(inbox)
  /\ UNCHANGED <<activeSession, sessionCounter, session, stopCall, peer, link,
                 outsideAd>>

\* the child process emits exit: the exitHandler of every wait registered
\* with process.once runs; an armed wait without one sees nothing
DeliverExit ==
  /\ link.exitEvt = "pending"
  /\ LET W == adapter.exitListeners
         ws == [w \in DOMAIN waits |->
                  IF w \in W THEN Terminate(waits[w])
                  ELSE IF waits[w].state = "armed"
                  THEN [waits[w] EXCEPT !.missed = "exit"]
                  ELSE waits[w]]
     IN /\ waits' = ws
        /\ calls' = SettleCalls(calls, ws)
        /\ startCall' = SettleStart(startCall, ws)
        /\ adapter' = ClearInitial([Cleanup(adapter, W) EXCEPT !.exitListeners = {}],
                                   startCall, ws)
  /\ link' = [link EXCEPT !.exitEvt = "delivered"]
  /\ UNCHANGED <<activeSession, sessionCounter, session, stopCall, peer, inbox,
                 outsideAd>>

\* the timer of wait w fires: cleanup, reject
TimerFire(w) ==
  /\ waits[w].timer = "armed"
  /\ LET ws == [waits EXCEPT
                  ![w].timer = "fired",
                  ![w].state = "rejected",
                  ![w].result = ErrorResult(TimeoutMessage(adapter.type))]
     IN /\ waits' = ws
        /\ calls' = SettleCalls(calls, ws)
        /\ startCall' = SettleStart(startCall, ws)
        /\ adapter' = ClearInitial(Cleanup(adapter, {w}), startCall, ws)
  /\ UNCHANGED <<activeSession, sessionCounter, session, stopCall, peer, inbox,
                 link, outsideAd>>

\* the socket emits close.  DapClient rejects every pending request with
\* 'Connection closed' and the awaiting code goes on: start throws, a
\* continue/step call throws, a stop handler resolves without location,
\* disconnect goes on to its tail.  NodeAdapter's ws.onclose only nulls ws.
DeliverClose ==
  /\ link.closeEvt = "pending"
  /\ link.sock = "peerClosed" => inbox = <<>>
  /\ IF adapter.type = "python"
     THEN LET P == adapter.pending
              disc == \E p \in P : p.kind = "disconnect"
              ws == [w \in DOMAIN waits |->
                       IF /\ waits[w].state = "fetching"
                          /\ \E p \in P : p.kind = "stackTrace" /\ p.ref = w
                       THEN [waits[w] EXCEPT !.state = "resolved"]
                       ELSE waits[w]]
              cs == [c \in DOMAIN calls |->
                       IF \E p \in P : p.kind = "resume" /\ p.ref = c
                       THEN [calls[c] EXCEPT
                               !.state = "returned",
                               !.result = ErrorResult("Connection closed")]
                       ELSE calls[c]]
              sc == IF \E p \in P : p.kind = "handshake"
                    THEN [startCall EXCEPT
                            !.pc = "failed",
                            !.result = ErrorResult("Connection closed")]
                    ELSE startCall
              a1 == [adapter EXCEPT !.pending = {}]
          IN /\ waits' = ws
             /\ calls' = SettleCalls(cs, ws)
             /\ startCall' = SettleStart(sc, ws)
             /\ adapter' = ClearInitial(IF disc THEN AfterDisconnect(a1) ELSE a1,
                                        sc, ws)
             /\ link' = [(IF disc THEN DisconnectLink(adapter, link, peer)
                          ELSE link) EXCEPT !.closeEvt = "delivered",
                                            !.sock = "closed"]
             /\ peer' = IF disc THEN DisconnectPeer(adapter, peer) ELSE peer
             /\ activeSession' = IF disc THEN 0 ELSE activeSession
             /\ stopCall' = IF disc THEN "done" ELSE stopCall
     ELSE /\ adapter' = [adapter EXCEPT !.client = FALSE]
          /\ link' = [link EXCEPT !.closeEvt = "delivered", !.sock = "closed"]
          /\ UNCHANGED <<activeSession, waits, calls, startCall, stopCall, peer>>
  /\ inbox' = <<>>
  /\ UNCHANGED <<sessionCounter, session, outsideAd>>

(***************************************************************************)
(* The phase machine of the debug agent (DebugPhase): the State kept in    *)
(* the store for one session, and the transitionPhase tool, which reads    *)
(* the State with getOrCreate and calls transition.                        *)
(***************************************************************************)
PHASES ==
  <<"PLANNING", "CODING", "BREAKPOINTING", "DEBUGGING", "EXPLAINING",
    "CONFIRMING">>

VALID_TRANSITIONS ==
  [p \in Range(PHASES) |->
     CASE p = "PLANNING"      -> <<"CODING">>
       [] p = "CODING"        -> <<"BREAKPOINTING">>
       [] p = "BREAKPOINTING" -> <<"DEBUGGING">>
       [] p = "DEBUGGING"     -> <<"EXPLAINING">>
       [] p = "EXPLAINING"    -> <<"CONFIRMING">>
       [] p = "CONFIRMING"    -> <<"PLANNING">>]

\* an includes that finds every phase
Includes_Any(arr, x) == TRUE

\* allowed.includes(to)
Includes(arr, x) == \E i \in 1..Len(arr) : arr[i] = x

\* allowed.join(", "): the pieces of the joined string
RECURSIVE Join(_)
Join(arr) ==
  IF Len(arr) = 0 THEN <<>>
  ELSE IF Len(arr) = 1 THEN <<arr[1]>>
  ELSE <<arr[1], ", ">> \o Join(Tail(arr))

\* the message of the error transition throws, as the pieces of the
\* template literal
CannotTransition(from, to, allowed) ==
  <<"Cannot transition from ", from, " to ", to, ". Valid transitions: ">>
    \o Join(allowed)

\* a nextStep that counts every edge
NextStep_EveryEdge(state, to) == state.currentStep + 1

\* nextStep of transition
NextStep(state, to) ==
  IF state.currentPhase = "CONFIRMING" /\ to = "PLANNING"
  THEN state.currentStep + 1
  ELSE state.currentStep

\* the session ids the registry is called with
SessionIDs == {"ses_1", "ses_2"}

\* PHASE_TOOLS: the tool ids of each phase, in the order of the source
PHASE_TOOLS ==
  [p \in Range(PHASES) |->
     CASE p = "PLANNING"      ->
            <<"read", "glob", "grep", "task", "transitionPhase">>
       [] p = "CODING"        ->
            <<"read", "glob", "grep", "edit", "write", "bash", "apply_patch",
              "transitionPhase">>
       [] p = "BREAKPOINTING" ->
            <<"debugger_set_breakpoints", "debugger_remove_breakpoints",
              "debugger_list_breakpoints", "read", "transitionPhase">>
       [] p = "DEBUGGING"     ->
            <<"debugger_start_debug_session", "debugger_continue_execution",
              "debugger_step_over", "debugger_step_into", "debugger_step_out",
              "debugger_get_variables", "debugger_get_call_stack",
              "debugger_evaluate_expression", "debugger_list_breakpoints",
              "transitionPhase">>
       [] p = "EXPLAINING"    -> <<"transitionPhase">>
       [] p = "CONFIRMING"    ->
            <<"debugger_stop_debug_session", "transitionPhase">>]

\* an isToolAllowed that looks the tool up in the list of PLANNING
isToolAllowed_Planning(phase, toolID) ==
  Includes(PHASE_TOOLS["PLANNING"], toolID)

\* an isToolAllowed that finds the tool in the list of any phase
isToolAllowed_AnyPhase(phase, toolID) ==
  \E p \in Range(PHASES) : Includes(PHASE_TOOLS[p], toolID)

\* isToolAllowed(phase, toolID)
isToolAllowed(phase, toolID) == Includes(PHASE_TOOLS[phase], toolID)

\* the State that create(sessionID) builds
CreateState(sessionID) ==
  [sessionID |-> sessionID, currentPhase |-> "PLANNING", currentStep |-> 0,
   totalSteps |-> "null", stepDescriptions |-> <<>>, autoConfirm |-> FALSE]

\* a getOrCreate that replaces the entry it finds
getOrCreate_Fresh(map, sessionID) ==
  [k \in DOMAIN map \cup {sessionID} |->
     IF k = sessionID THEN CreateState(sessionID) ELSE map[k]]

\* getOrCreate(sessionID): the store after the call; the State returned is
\* its entry of sessionID
getOrCreate(map, sessionID) ==
  IF sessionID \in DOMAIN map THEN map
  ELSE [k \in DOMAIN map \cup {sessionID} |->
          IF k = sessionID THEN CreateState(sessionID) ELSE map[k]]

\* a transition that writes the requested phase before it throws
transition_WritesFirst(state, to) ==
  LET allowed == VALID_TRANSITIONS[state.currentPhase]
  IN [threw |-> ~Includes(allowed, to),
      message |-> IF Includes(allowed, to) THEN <<>>
                  ELSE CannotTransition(state.currentPhase, to, allowed),
      next |-> [state EXCEPT !.currentPhase = to,
                             !.currentStep = NextStep(state, to)]]

\* transition(state, to): the State returned and stored, or the error
\* thrown; next is what the store holds for state.sessionID afterwards
transition(state, to) ==
  LET allowed == VALID_TRANSITIONS[state.currentPhase]
  IN IF ~Includes(allowed, to)
     THEN [threw |-> TRUE,
           message |-> CannotTransition(state.currentPhase, to, allowed),
           next |-> state]
     ELSE [threw |-> FALSE,
           message |-> <<>>,
           next |-> [state EXCEPT !.currentPhase = to,
                                  !.currentStep = NextStep(state, to)]]

\* the last operation was not a transitionPhase call
NoTransition ==
  [sessionID |-> "none", from |-> "none", to |-> "none", threw |-> FALSE,
   message |-> <<>>, phase |-> "none", step |-> 0, error |-> FALSE]

\* the last operation was not an isToolAllowed call
NoToolCheck == [phase |-> "none", toolID |-> "none", allowed |-> FALSE]

\* an empty store
PhaseIdle ==
  /\ store = <<>>
  /\ lastTransition = NoTransition
  /\ confirmEdges = [s \in SessionIDs |-> 0]
  /\ toolCheck = NoToolCheck

\* the transitionPhase tool on ctx.sessionID: getOrCreate, transition (with
\* its store.set), and the metadata of the result: next's phase and step,
\* or in the catch the phase and step of the State getOrCreate returned,
\* with error.  confirmEdges[s] counts the completed CONFIRMING -> PLANNING
\* edges of the entry of s since it was created.
TransitionPhase(sessionID, to) ==
  LET found == getOrCreate(store, sessionID)
      state == found[sessionID]
      r     == transition(state, to)
      edge  == ~r.threw /\ state.currentPhase = "CONFIRMING" /\ to = "PLANNING"
  IN /\ (state.currentPhase = "CONFIRMING" /\ to = "PLANNING") =>
          state.currentStep < MaxStep
     /\ store' = [found EXCEPT ![state.sessionID] = r.next]
     /\ lastTransition' =
          [sessionID |-> sessionID, from |-> state.currentPhase, to |-> to,
           threw |-> r.threw, message |-> r.message,
           phase |-> IF r.threw THEN state.currentPhase
                     ELSE r.next.currentPhase,
           step  |-> IF r.threw THEN state.currentStep
                     ELSE r.next.currentStep,
           error |-> r.threw]
     /\ confirmEdges' =
          [confirmEdges EXCEPT
             ![sessionID] = IF sessionID \notin DOMAIN store
                            THEN 0
                            ELSE IF edge THEN @ + 1 ELSE @]
     /\ toolCheck' = NoToolCheck
     /\ UNCHANGED <<mgrVars, bpVars, adVars, corVars, inspect,
                 creates, toolCalls>>

\* create(sessionID): a new State replaces whatever the store holds
CreateCall(sessionID) ==
  /\ store' = [k \in DOMAIN store \cup {sessionID} |->
                 IF k = sessionID THEN CreateState(sessionID) ELSE store[k]]
  /\ confirmEdges' = [confirmEdges EXCEPT ![sessionID] = 0]
  /\ lastTransition' = NoTransition
  /\ toolCheck' = NoToolCheck
  /\ UNCHANGED <<mgrVars, bpVars, adVars, corVars, inspect,
                 creates, toolCalls>>

\* clear(sessionID): store.delete
Clear(sessionID) ==
  /\ store' = [k \in DOMAIN store \ {sessionID} |-> store[k]]
  /\ confirmEdges' = [confirmEdges EXCEPT ![sessionID] = 0]
  /\ lastTransition' = NoTransition
  /\ toolCheck' = NoToolCheck
  /\ UNCHANGED <<mgrVars, bpVars, adVars, corVars, inspect,
                 creates, toolCalls>>

\* setAutoConfirm(sessionID, value)
setAutoConfirm(sessionID, value) ==
  /\ store' = IF sessionID \in DOMAIN store
              THEN [store EXCEPT ![sessionID] = [@ EXCEPT !.autoConfirm = value]]
              ELSE store
  /\ lastTransition' = NoTransition
  /\ toolCheck' = NoToolCheck
  /\ UNCHANGED <<confirmEdges, mgrVars, bpVars, adVars, corVars, inspect,
                 creates, toolCalls>>

\* The functions of DebugPhase called one by one by a caller that keeps
\* State objects: heldStates are objects create, get, getOrCreate or
\* transition returned to it earlier, at most MaxHeld of them; it may let
\* one go for a new one.
Keeps(state) ==
  \/ UNCHANGED heldStates
  \/ /\ Cardinality(heldStates \cup {state}) <= MaxHeld
     /\ heldStates' = heldStates \cup {state}
  \/ \E old \in heldStates : heldStates' = (heldStates \ {old}) \cup {state}

\* create(sessionID), the State returned kept or not
CreateKept(sessionID) ==
  /\ CreateCall(sessionID)
  /\ Keeps(CreateState(sessionID))

\* getOrCreate(sessionID); with an entry in the store it is get(sessionID)
GetOrCreateKept(sessionID) ==
  /\ store' = getOrCreate(store, sessionID)
  /\ Keeps(store'[sessionID])
  /\ confirmEdges' = [confirmEdges EXCEPT
                        ![sessionID] = IF sessionID \in DOMAIN store THEN @ ELSE 0]
  /\ lastTransition' = NoTransition
  /\ toolCheck' = NoToolCheck
  /\ UNCHANGED <<mgrVars, bpVars, adVars, corVars, inspect, creates, toolCalls>>

\* transition(state, to) with a State the caller holds: store.set under
\* state.sessionID unless it throws.  The State stored has taken as many
\* CONFIRMING -> PLANNING edges as its currentStep says.
TransitionHeld(state, to) ==
  LET r == transition(state, to)
      id == state.sessionID
      edge == ~r.threw /\ state.currentPhase = "CONFIRMING" /\ to = "PLANNING"
  IN /\ edge => state.currentStep < MaxStep
     /\ store' = IF r.threw THEN store
                 ELSE [k \in DOMAIN store \cup {id} |->
                         IF k = id THEN r.next ELSE store[k]]
     /\ IF r.threw THEN UNCHANGED heldStates ELSE Keeps(r.next)
     /\ lastTransition' =
          [sessionID |-> id, from |-> state.currentPhase, to |-> to,
           threw |-> r.threw, message |-> r.message,
           phase |-> IF r.threw THEN state.currentPhase
                     ELSE r.next.currentPhase,
           step  |-> IF r.threw THEN state.currentStep
                     ELSE r.next.currentStep,
           error |-> r.threw]
     /\ confirmEdges' = [confirmEdges EXCEPT
                           ![id] = IF r.threw THEN @ ELSE r.next.currentStep]
     /\ toolCheck' = NoToolCheck
     /\ UNCHANGED <<mgrVars, bpVars, adVars, corVars, inspect, creates, toolCalls>>

\* isToolAllowed(phase, toolID) on any phase and any tool id of PHASE_TOOLS
\* or none of them
IsToolAllowedCall ==
  /\ \E phase \in Range(PHASES),
        toolID \in UNION {Range(PHASE_TOOLS[p]) : p \in Range(PHASES)}
                     \cup {"webfetch"} :
       toolCheck' = [phase |-> phase, toolID |-> toolID,
                     allowed |-> isToolAllowed(phase, toolID)]
  /\ lastTransition' = NoTransition
  /\ UNCHANGED <<store, confirmEdges, mgrVars, bpVars, adVars, corVars,
                 callVars>>

(***************************************************************************)
(* The request/response correlators on their own: DapClient (dap/client.ts)*)
(* and the cdpSend / handleCdpMessage part of NodeAdapter.  A caller may   *)
(* send at any time, the peer answers with any number, in any order, and   *)
(* more than once; the transport may be closed from either side.           *)
(***************************************************************************)
\* response.command of a DAP response
Commands == {"continue", "next"}

\* a response without message (DAP) / with an error without message (CDP)
NoMessage == "undefined"

\* the responses a peer can write: number, success (CDP: no error field),
\* message, command
Responses ==
  [id : 1..MaxRequests, success : {TRUE}, message : {NoMessage},
   command : Commands]
  \cup [id : 1..MaxRequests, success : {FALSE}, message : {NoMessage, "boom"},
        command : Commands]

\* the promise sendRequest / cdpSend returns; settles counts the calls of
\* its resolve and reject, by is the number of the response that settled it
NewPromise(id) ==
  [id |-> id, state |-> "pending", detail |-> <<>>, settles |-> 0, by |-> 0]

\* resolve(response) on promise p: only the first settlement takes effect
Resolve(p, by) ==
  [p EXCEPT !.settles = @ + 1,
            !.state = IF p.state = "pending" THEN "fulfilled" ELSE @,
            !.by = IF p.state = "pending" THEN by ELSE @]

\* reject(new Error(message)) on promise p
Reject(p, message, by) ==
  [p EXCEPT !.settles = @ + 1,
            !.state = IF p.state = "pending" THEN "rejected" ELSE @,
            !.detail = IF p.state = "pending" THEN message ELSE @,
            !.by = IF p.state = "pending" THEN by ELSE @]

\* the message of the error a failed response rejects with
FailureMessage(proto, m) ==
  IF proto = "dap"
  THEN IF m.message = NoMessage THEN <<"Request failed: ", m.command>>
       ELSE <<m.message>>
  ELSE IF m.message = NoMessage THEN <<"">> ELSE <<m.message>>

\* a delete that leaves the entry in the table
MapDelete_Kept(map, key) == map

\* pending.delete(key)
MapDelete(map, key) == [k \in DOMAIN map \ {key} |-> map[k]]

\* pending.set(key, value)
MapSet(map, key, value) ==
  [k \in DOMAIN map \cup {key} |-> IF k = key THEN value ELSE map[k]]

\* a close handler that rejects nothing
RejectAll_None(ps, map) == ps

\* for (const [, p] of this.pending) p.reject(new Error("Connection closed"))
RejectAll(ps, map) ==
  [k \in DOMAIN ps |->
     IF \E id \in DOMAIN map : map[id] = k
     THEN Reject(ps[k], <<"Connection closed">>, 0) ELSE ps[k]]

(***************************************************************************)
(* The event handlers of DapClient (dap/client.ts on, off, once and the    *)
(* event branch of handleMessage).  eventHandlers maps an event name to a  *)
(* Set of handlers; the Set is kept as the sequence of its elements in     *)
(* insertion order, which is the order its iteration follows.  Handlers 0  *)
(* and -1 are callbacks that stay registered until off is called with      *)
(* them (as the "stopped" callback of PythonAdapter.start); handler k >= 1 *)
(* is the handler of the k-th once(event) call.                            *)
(***************************************************************************)
EventNames == {"stopped", "terminated"}

Persistent == {0, -1}

\* Set.prototype.add: an element already present stays where it is
SetAdd(set, x) == IF Includes(set, x) THEN set ELSE Append(set, x)

\* Set.prototype.delete
SetDelete(set, x) == SelectSeq(set, LAMBDA y : y # x)

\* this.eventHandlers.get(event), undefined as the empty sequence
HandlersOf(map, event) == IF event \in DOMAIN map THEN map[event] ELSE <<>>

\* on(event, handler)
on(map, event, handler) == MapSet(map, event, SetAdd(HandlersOf(map, event), handler))

\* off(event, handler): this.eventHandlers.get(event)?.delete(handler)
off(map, event, handler) ==
  IF event \in DOMAIN map THEN [map EXCEPT ![event] = SetDelete(@, handler)]
  ELSE map

\* a new DapClient: no handlers, no event decoded, no once call made
EventsIdle == [handlers |-> <<>>, decoded |-> 0, once |-> <<>>, log |-> <<>>]

\* handler(event.body ?? {}) for the event numbered n: a callback that
\* stays registered changes nothing of the client; the handler of once
\* removes itself and resolves its promise
InvokeHandler(ev, h, n) ==
  LET called == [ev EXCEPT !.log[n].invoked = Append(@, h)]
  IN IF h \in Persistent THEN called
     ELSE [called EXCEPT
             !.handlers = off(@, ev.once[h].event, h),
             !.once[h] = IF @.state = "pending"
                         THEN [@ EXCEPT !.state = "resolved", !.by = n]
                         ELSE @]

\* an iteration that goes on by position after each call, whether or not
\* the handler called has removed itself
RECURSIVE Dispatch_ByIndex(_, _, _)
Dispatch_ByIndex(ev, event, i) ==
  IF i > Len(ev.handlers[event]) THEN ev
  ELSE Dispatch_ByIndex(InvokeHandler(ev, ev.handlers[event][i], ev.decoded),
                        event, i + 1)

\* for (const handler of handlers) handler(...): the iteration of a Set
\* visits the elements in insertion order and goes on with the element
\* after the current one, also when the current one was deleted
RECURSIVE Dispatch(_, _, _)
Dispatch(ev, event, i) ==
  IF i > Len(ev.handlers[event]) THEN ev
  ELSE LET h == ev.handlers[event][i]
           after == InvokeHandler(ev, h, ev.decoded)
           stays == i <= Len(after.handlers[event]) /\ after.handlers[event][i] = h
       IN Dispatch(after, event, IF stays THEN i + 1 ELSE i)

\* what the handlers of DapClient leave alone
outsideEvents ==
  <<mgrVars, bpVars, adVars, phVars, client, promises, wire, socket, buffer,
    stream, delivered, callVars>>

\* client.on(event, handler) with a callback that stays registered
ClientOn(event, handler) ==
  /\ events' = [events EXCEPT !.handlers = on(@, event, handler)]
  /\ UNCHANGED outsideEvents

\* client.off(event, handler)
ClientOff(event, handler) ==
  /\ events' = [events EXCEPT !.handlers = off(@, event, handler)]
  /\ UNCHANGED outsideEvents

\* client.once(event): a promise, and its handler registered
ClientOnce(event) ==
  /\ Len(events.once) < MaxOnce
  /\ events' = [events EXCEPT
                  !.once = Append(@, [event |-> event, armedAt |-> events.decoded,
                                      state |-> "pending", by |-> 0]),
                  !.handlers = on(@, event, Len(events.once) + 1)]
  /\ UNCHANGED outsideEvents

\* handleMessage on a decoded message of type "event"
HandleEvent(event) ==
  /\ events.decoded < MaxEvents
  /\ LET seen == [events EXCEPT
                    !.decoded = @ + 1,
                    !.log = Append(@, [event |-> event,
                                       registered |-> HandlersOf(events.handlers, event),
                                       invoked |-> <<>>])]
     IN events' = IF event \in DOMAIN events.handlers
                  THEN Dispatch(seen, event, 1) ELSE seen
  /\ UNCHANGED outsideEvents

(***************************************************************************)
(* The paused frames of NodeAdapter: handleCdpMessage on the events of the *)
(* Debugger domain, and getCallStack, getVariables and evaluate, which     *)
(* read pausedFrames.  A path or URL is the sequence of its pieces.        *)
(***************************************************************************)
\* call frames a Debugger.paused event may carry
CallFrames ==
  {[callFrameId |-> "cf1", functionName |-> "main", scriptId |-> "s1",
    lineNumber |-> 0,
    scopeChain |-> <<[type |-> "local", objectId |-> "o1"],
                     [type |-> "global", objectId |-> "o3"]>>],
   [callFrameId |-> "cf2", functionName |-> "", scriptId |-> "s2",
    lineNumber |-> 1,
    scopeChain |-> <<[type |-> "closure", objectId |-> ""],
                     [type |-> "closure", objectId |-> "o2"]>>]}

\* params of a Debugger.paused event, with and without callFrames
PausedChoices ==
  [hasFrames : {TRUE}, callFrames : SeqsUpTo(CallFrames, 2), reason : EventReasons]
  \cup [hasFrames : {FALSE}, callFrames : {<<>>}, reason : EventReasons]

\* params of a Debugger.scriptParsed event
ScriptChoices ==
  [scriptId : {"s1", "s2"},
   url : {<<"file://", "/tmp/", "a.js">>, <<"node:", "internal">>, <<>>}]

\* no Debugger.paused or Debugger.resumed event handled yet
NoCdpEvent == [method |-> "none", hasFrames |-> FALSE, callFrames |-> <<>>]

\* frameId of an inspection call: omitted, or a number
FrameArgs == {[given |-> FALSE, id |-> 0]} \cup [given : {TRUE}, id : 0..MaxFrameId]

\* scope of a get_variables call; "" is omitted
ScopeArgs == {"", "local", "global"}

NoInspectCall ==
  [op |-> "none", frame |-> [given |-> FALSE, id |-> 0], scope |-> "",
   heard |-> NoCdpEvent, result |-> <<>>, method |-> "", callFrameId |-> "",
   sent |-> FALSE]

\* a new NodeAdapter: pausedFrames = [], no script known
InspectIdle ==
  inspect = [pausedFrames |-> <<>>, pausedReason |-> "", scripts |-> <<>>,
             fileToScript |-> <<>>, heard |-> NoCdpEvent, call |-> NoInspectCall]

\* a resumed event that leaves the frames
Resumed_Kept(ins) == ins

\* event.method === "Debugger.resumed": this.pausedFrames = []
Resumed(ins) == [ins EXCEPT !.pausedFrames = <<>>]

\* onPaused up to its loop: pausedFrames = params.callFrames ?? [],
\* pausedReason = params.reason ?? "breakpoint"
Paused(ins, params) ==
  [ins EXCEPT !.pausedFrames = IF params.hasFrames THEN params.callFrames ELSE <<>>,
              !.pausedReason = ReasonOf(params)]

\* onScriptParsed
ScriptParsed(ins, params) ==
  IF params.url # <<>> /\ Head(params.url) = "file://"
  THEN [ins EXCEPT !.scripts = MapSet(@, params.scriptId, Tail(params.url)),
                   !.fileToScript = MapSet(@, Tail(params.url), params.scriptId)]
  ELSE ins

\* this.pausedFrames[frameId ?? 0] as a position of the sequence; 0 is
\* undefined
FrameAt(frames, frame) ==
  LET i == IF frame.given THEN frame.id ELSE 0
  IN IF i + 1 \in DOMAIN frames THEN i + 1 ELSE 0

\* getCallStack: one StackFrame per paused frame
getCallStack(ins) ==
  [i \in DOMAIN ins.pausedFrames |->
     LET frame == ins.pausedFrames[i]
         known == frame.scriptId \in DOMAIN ins.scripts
     IN [id |-> i - 1,
         name |-> IF frame.functionName = "" THEN "(anonymous)"
                  ELSE frame.functionName,
         source |-> IF known THEN ins.scripts[frame.scriptId] ELSE <<>>,
         line |-> frame.lineNumber + 1]]

\* the names Runtime.getProperties gives for an object
PropertiesOf(objectId) == <<<<"var of ", objectId>>>>

RECURSIVE CollectVariables(_, _)
CollectVariables(scopes, k) ==
  IF k > Len(scopes) THEN <<>>
  ELSE (IF scopes[k].objectId = "" THEN <<>> ELSE PropertiesOf(scopes[k].objectId))
       \o CollectVariables(scopes, k + 1)

\* getVariables(frameId, scope): [] without the frame, else the properties
\* of the scopes of the type asked for, or of the local and closure scopes
getVariables(ins, frame, scope) ==
  LET i == FrameAt(ins.pausedFrames, frame)
      targetScopes ==
        SelectSeq(ins.pausedFrames[i].scopeChain,
                  LAMBDA s : IF scope # "" THEN s.type = scope
                             ELSE s.type = "local" \/ s.type = "closure")
  IN IF i = 0 THEN <<>> ELSE CollectVariables(targetScopes, 1)

\* evaluate(expression, frameId): the request cdpSend is called with
evaluate(ins, frame) ==
  LET i == FrameAt(ins.pausedFrames, frame)
  IN IF i = 0 THEN [method |-> "Runtime.evaluate", callFrameId |-> ""]
     ELSE [method |-> "Debugger.evaluateOnCallFrame",
           callFrameId |-> ins.pausedFrames[i].callFrameId]

\* what the events of the Debugger domain and the inspection calls leave
\* alone
outsideInspect ==
  <<mgrVars, bpVars, phVars, corVars, creates, toolCalls, heldStates>>

\* handleCdpMessage on Debugger.scriptParsed
CdpScriptParsed ==
  /\ \E params \in ScriptChoices : inspect' = ScriptParsed(inspect, params)
  /\ UNCHANGED <<adVars, outsideInspect>>

\* handleCdpMessage on Debugger.resumed
CdpResumed ==
  /\ inspect' = [Resumed(inspect) EXCEPT
                   !.heard = [method |-> "Debugger.resumed", hasFrames |-> FALSE,
                              callFrames |-> <<>>]]
  /\ UNCHANGED <<adVars, outsideInspect>>

\* handleCdpMessage on Debugger.paused: onPaused, with its loop over
\* stoppedCallbacks
CdpPaused ==
  /\ \E params \in PausedChoices :
       LET reason == ReasonOf(params)
           invoked == FanOut(adapter.stoppedCallbacks, 1, <<>>)
           W == Range(invoked) \ {SessionListener}
           ws == [w \in DOMAIN waits |->
                    IF w \in W
                    THEN [ClearTimer(waits[w]) EXCEPT
                            !.state = "resolved",
                            !.result = StoppedResult(reason, 1)]
                    ELSE waits[w]]
       IN /\ inspect' = [Paused(inspect, params) EXCEPT
                           !.heard = [method |-> "Debugger.paused",
                                      hasFrames |-> params.hasFrames,
                                      callFrames |-> params.callFrames]]
          /\ session' = IF SessionListener \in Range(invoked)
                        THEN [stoppedThreadId |-> 1, stoppedReason |-> reason]
                        ELSE session
          /\ waits' = ws
          /\ calls' = SettleCalls(calls, ws)
          /\ startCall' = SettleStart(startCall, ws)
          /\ adapter' = ClearInitial(Cleanup(adapter, W), startCall, ws)
  /\ UNCHANGED <<stopCall, peer, inbox, link, outsideInspect>>

InspectCall(op, frame, scope, result, request) ==
  [op |-> op, frame |-> frame, scope |-> scope, heard |-> inspect.heard,
   result |-> result, method |-> request.method,
   callFrameId |-> request.callFrameId, sent |-> request.method # "" /\ adapter.client]

NoRequest == [method |-> "", callFrameId |-> ""]

\* get_call_stack
GetCallStack ==
  /\ requireActive
  /\ inspect' = [inspect EXCEPT
                   !.call = InspectCall("getCallStack", [given |-> FALSE, id |-> 0],
                                        "", getCallStack(inspect), NoRequest)]
  /\ UNCHANGED <<adVars, outsideInspect>>

\* get_variables
GetVariables ==
  /\ requireActive
  /\ \E frame \in FrameArgs, scope \in ScopeArgs :
       inspect' = [inspect EXCEPT
                     !.call = InspectCall("getVariables", frame, scope,
                                          getVariables(inspect, frame, scope),
                                          NoRequest)]
  /\ UNCHANGED <<adVars, outsideInspect>>

\* evaluate_expression, up to the await of its request
Evaluate ==
  /\ requireActive
  /\ \E frame \in FrameArgs :
       inspect' = [inspect EXCEPT
                     !.call = InspectCall("evaluate", frame, "", <<>>,
                                          evaluate(inspect, frame))]
  /\ UNCHANGED <<adVars, outsideInspect>>

\* what the client, its callers and its peer leave alone
outsideClient == <<mgrVars, bpVars, adVars, phVars, buffer, stream, delivered,
                   events, callVars>>

\* no client: the specifications of the other parts
ClientIdle ==
  /\ client = [proto |-> "none", seq |-> 1, pending |-> <<>>, connected |-> FALSE]
  /\ promises = <<>>
  /\ wire = {}
  /\ socket = "none"
  /\ buffer = <<>>
  /\ stream = [frames |-> <<>>, arrived |-> 0]
  /\ delivered = <<>>
  /\ events = EventsIdle
  /\ InspectIdle
  /\ CallsIdle

\* sendRequest(command) / cdpSend(method, params).  cdpSend rejects with
\* 'Not connected' when ws is null; sendRequest writes whatever the state
\* of the socket.
sendRequest ==
  /\ Len(promises) < MaxRequests
  /\ IF client.proto = "cdp" /\ ~client.connected
     THEN /\ promises' = Append(promises,
                           Reject(NewPromise(0), <<"Not connected">>, 0))
          /\ UNCHANGED client
     ELSE /\ promises' = Append(promises, NewPromise(client.seq))
          /\ client' = [client EXCEPT
                          !.seq = @ + 1,
                          !.pending = MapSet(@, client.seq, Len(promises) + 1)]
  /\ UNCHANGED <<wire, socket, outsideClient>>

\* the peer writes a response
PeerRespond ==
  /\ socket = "open"
  /\ Cardinality(wire) < MaxWire
  /\ \E m \in Responses : wire' = wire \cup {m}
  /\ UNCHANGED <<client, promises, socket, outsideClient>>

\* handleMessage / handleCdpMessage on a decoded response m
handleMessage ==
  /\ socket \in {"open", "ended", "closing"}
  /\ \E m \in wire :
       /\ wire' = wire \ {m}
       /\ IF m.id \in DOMAIN client.pending
          THEN LET k == client.pending[m.id]
               IN /\ client' = [client EXCEPT !.pending = MapDelete(@, m.id)]
                  /\ promises' =
                       [promises EXCEPT
                          ![k] = IF m.success THEN Resolve(@, m.id)
                                 ELSE Reject(@, FailureMessage(client.proto, m),
                                             m.id)]
          ELSE UNCHANGED <<client, promises>>
  /\ UNCHANGED <<socket, outsideClient>>

\* DapClient.disconnect: socket.destroy(), connected = false;
\* NodeAdapter.disconnect: if (this.ws) { ws.close(); ws = null }
ClientDisconnect ==
  /\ client.proto = "cdp" => client.connected
  /\ socket \in {"open", "ended"}
  /\ client' = [client EXCEPT !.connected = FALSE]
  /\ socket' = "closing"
  /\ wire' = IF client.proto = "dap" THEN {} ELSE wire
  /\ UNCHANGED <<promises, outsideClient>>

\* the peer closes its end; what it wrote before is still read
PeerEnd ==
  /\ socket = "open"
  /\ socket' = "ended"
  /\ UNCHANGED <<client, promises, wire, outsideClient>>

\* the socket emits close: socket.on("close") of connect / ws.onclose
OnSocketClose ==
  /\ socket \in {"ended", "closing"}
  /\ socket = "ended" => wire = {}
  /\ socket' = "closed"
  /\ wire' = {}
  /\ IF client.proto = "dap"
     THEN /\ promises' = RejectAll(promises, client.pending)
          /\ client' = [client EXCEPT !.connected = FALSE, !.pending = <<>>]
     ELSE /\ client' = [client EXCEPT !.connected = FALSE]
          /\ UNCHANGED promises
  /\ UNCHANGED outsideClient

(***************************************************************************)
(* The decoder of DapClient (dap/client.ts onData).  A byte string is a    *)
(* sequence of tokens: "CR" and "LF" are the bytes \r and \n, " " and the  *)
(* digits are themselves, and every other token stands for the bytes of a  *)
(* piece of text that no chunk divides.                                    *)
(***************************************************************************)
\* "\r\n\r\n"
HeaderEnd == <<"CR", "LF", "CR", "LF">>

\* `Content-Length: ${Buffer.byteLength(json)}\r\n\r\n` + json, which is
\* also how the peer frames what it writes (bodies of up to 9 bytes)
Frame(json) ==
  <<"Content-Length:", " ", <<"0", "1", "2", "3", "4", "5", "6", "7", "8",
                               "9">>[Len(json) + 1]>>
    \o HeaderEnd \o json

\* the JSON texts of the messages the peer sends: the response to request
\* 1, the failed response to request 2 with a space before the brace, an
\* event
Bodies == {<<"{", "r1", "}">>, <<"{", "r2", " ", "}">>, <<"{", "ev", "}">>}

\* what the peer can write: frames of these messages, a header block
\* without Content-Length, a frame whose body of the announced length is
\* cut short of its brace
FrameChoices ==
  {Frame(b) : b \in Bodies}
    \cup {<<"X-Seq:", " ", "7">> \o HeaderEnd, Frame(<<"{", "r1">>)}

\* an indexOf that finds the pattern only at the start of the buffer
indexOf_AtStart(buf, pat) ==
  IF Len(buf) >= Len(pat) /\ SubSeq(buf, 1, Len(pat)) = pat THEN 0 ELSE -1

\* buf.indexOf(pat): the 0-based offset of the first occurrence, or -1
indexOf(buf, pat) ==
  LET At(i) == SubSeq(buf, i + 1, i + Len(pat)) = pat
      hits  == {i \in 0..(Len(buf) - Len(pat)) : At(i)}
  IN IF hits = {} THEN -1
     ELSE CHOOSE i \in hits : \A j \in hits : i <= j

\* header.match(/Content-Length:\s*(\d+)/i) and parseInt(match[1], 10): the
\* number of the leftmost match, or -1 without a match
ContentLength(header) ==
  LET digits == <<"0", "1", "2", "3", "4", "5", "6", "7", "8", "9">>
      IsDigit(t) == \E d \in 1..10 : digits[d] = t
      IsSpace(t) == t \in {" ", "CR", "LF"}
      \* the first token after the name and the white space that follows it
      First(i) == CHOOSE j \in (i + 1)..(Len(header) + 1) :
                    /\ \A k \in (i + 1)..(j - 1) : IsSpace(header[k])
                    /\ j <= Len(header) => ~IsSpace(header[j])
      Matches(i) == /\ header[i] \in {"Content-Length:", "content-length:"}
                    /\ First(i) <= Len(header)
                    /\ IsDigit(header[First(i)])
      hits  == {i \in 1..Len(header) : Matches(i)}
      at    == CHOOSE i \in hits : \A j \in hits : i <= j
      from  == First(at)
      to    == CHOOSE k \in from..Len(header) :
                 /\ \A n \in from..k : IsDigit(header[n])
                 /\ k < Len(header) => ~IsDigit(header[k + 1])
      value[n \in (from - 1)..to] ==
        IF n = from - 1 THEN 0
        ELSE value[n - 1] * 10
               + (CHOOSE d \in 0..9 : digits[d + 1] = header[n])
  IN IF hits = {} THEN -1 ELSE value[to]

\* a JSON.parse that takes a text cut short of its brace for the response
\* to request 1
JSONParse_Lenient(content) ==
  [ok |-> Len(content) >= 2,
   message |-> [type |-> "response", id |-> 1, success |-> TRUE,
                message |-> NoMessage, command |-> "continue"]]

\* JSON.parse(content) as DapMessage: an object with one member and white
\* space before the closing brace, or a SyntaxError
JSONParse(content) ==
  IF /\ Len(content) >= 3
     /\ content[1] = "{"
     /\ content[2] \in {"r1", "r2", "ev"}
     /\ content[Len(content)] = "}"
     /\ \A k \in 3..(Len(content) - 1) : content[k] = " "
  THEN [ok |-> TRUE,
        message |->
          CASE content[2] = "r1" ->
                 [type |-> "response", id |-> 1, success |-> TRUE,
                  message |-> NoMessage, command |-> "continue"]
            [] content[2] = "r2" ->
                 [type |-> "response", id |-> 2, success |-> FALSE,
                  message |-> NoMessage, command |-> "next"]
            [] content[2] = "ev" ->
                 [type |-> "event", id |-> 0, success |-> TRUE,
                  message |-> NoMessage, command |-> "stopped"]]
  ELSE [ok |-> FALSE, message |-> <<>>]

\* handleMessage(message) inside onData, on st = the client's buffer,
\* pending table (pending), promises and the messages handled so far
HandleDecoded(st, m) ==
  LET seen == [st EXCEPT !.delivered = Append(@, m)]
  IN IF m.type = "response" /\ m.id \in DOMAIN st.pending
     THEN [seen EXCEPT
             !.pending = MapDelete(@, m.id),
             !.promises[st.pending[m.id]] =
                IF m.success THEN Resolve(@, m.id)
                ELSE Reject(@, FailureMessage("dap", m), m.id)]
     ELSE seen

\* the while (true) loop of onData
RECURSIVE ReadFrames(_)
ReadFrames(st) ==
  LET headerEnd == indexOf(st.buffer, HeaderEnd)
      header == SubSeq(st.buffer, 1, headerEnd)
      contentLength == ContentLength(header)
      contentStart == headerEnd + 4
      content == SubSeq(st.buffer, contentStart + 1,
                        contentStart + contentLength)
      after == [st EXCEPT !.buffer = SubSeq(@, contentStart + contentLength + 1,
                                            Len(@))]
  IN IF headerEnd = -1 THEN st
     ELSE IF contentLength = -1
     THEN ReadFrames([st EXCEPT !.buffer = SubSeq(@, headerEnd + 4 + 1, Len(@))])
     ELSE IF Len(st.buffer) < contentStart + contentLength THEN st
     ELSE IF JSONParse(content).ok
     THEN ReadFrames(HandleDecoded(after, JSONParse(content).message))
     ELSE ReadFrames(after)

\* all the bytes of a sequence of frames
RECURSIVE Bytes(_)
Bytes(frames) ==
  IF frames = <<>> THEN <<>> ELSE Head(frames) \o Bytes(Tail(frames))

\* the peer writes a frame
PeerWrite ==
  /\ socket = "open"
  /\ Len(stream.frames) < MaxFrames
  /\ \E f \in FrameChoices :
       stream' = [stream EXCEPT !.frames = Append(@, f)]
  /\ UNCHANGED <<client, promises, wire, socket, buffer, delivered, events,
                 mgrVars, bpVars, adVars, phVars, callVars>>

\* socket.on("data"): onData(data) with the next n bytes that were written
onData ==
  /\ socket = "open"
  /\ \E n \in 1..(Len(Bytes(stream.frames)) - stream.arrived) :
       LET data == SubSeq(Bytes(stream.frames), stream.arrived + 1,
                          stream.arrived + n)
           st == ReadFrames([buffer |-> buffer \o data,
                             pending |-> client.pending,
                             promises |-> promises,
                             delivered |-> delivered])
       IN /\ stream' = [stream EXCEPT !.arrived = @ + n]
          /\ buffer' = st.buffer
          /\ client' = [client EXCEPT !.pending = st.pending]
          /\ promises' = st.promises
          /\ delivered' = st.delivered
  /\ UNCHANGED <<wire, socket, events, mgrVars, bpVars, adVars, phVars, callVars>>

(***************************************************************************)
(* NodeAdapter.setBreakpoints step by step: each call runs to its next      *)
(* await of cdpSend; the runtime handles the requests in the order they    *)
(* were sent, and each response resumes the call that awaits it.           *)
(***************************************************************************)
\* a lineNumber that is the line of the breakpoint
ToCdpLine_Same(line) == line

\* lineNumber: bp.line - 1
ToCdpLine(line) == line - 1

\* the runtime on Debugger.setBreakpointByUrl for lineNumber of the file:
\* an error for a position that has a breakpoint already or that peerBp
\* refuses, else the breakpoint, with the location the line resolves to (as
\* a 0-based lineNumber) or with no location; -1 stands for no lineNumber
SetBreakpointByUrl(installed, file, lineNumber) ==
  IF <<file, lineNumber>> \in installed
  THEN [kind |-> "err", lineNumber |-> -1]
  ELSE IF lineNumber + 1 \notin Lines
  THEN [kind |-> "none", lineNumber |-> -1]
  ELSE [kind |-> peerBp[lineNumber + 1].kind,
        lineNumber |-> IF peerBp[lineNumber + 1].kind = "loc"
                       THEN peerBp[lineNumber + 1].line - 1 ELSE -1]

\* call i of st.calls runs on to its next await, where its request joins
\* the queue of the runtime, or to its end: this.breakpointIds.set(file,
\* newIds) and the return of results
RunToAwait(st, i) ==
  LET c == st.calls[i]
      removing == c.pc = "removing" /\ c.k <= Len(c.existingIds)
      n == IF c.pc = "removing" THEN 1 ELSE c.k
  IN IF removing THEN [st EXCEPT !.queue = Append(@, i)]
     ELSE IF n <= Len(c.bps)
     THEN [st EXCEPT !.calls[i].pc = "setting", !.calls[i].k = n,
                     !.queue = Append(@, i)]
     ELSE [st EXCEPT !.calls[i].pc = "done",
                     !.ids = [f \in DOMAIN st.ids \cup {c.file} |->
                                IF f = c.file THEN c.newIds ELSE st.ids[f]]]

\* adapter.setBreakpoints(file, bps) is called
NodeSetBreakpoints(file, bps) ==
  /\ Len(bpCalls) < MaxBpCalls
  /\ LET c == [file |-> file, bps |-> bps, pc |-> "removing", k |-> 1,
               existingIds |-> getBreakpointsForFile(breakpointIds, file),
               removed |-> <<>>, lineNumbers |-> <<>>, answers |-> <<>>,
               results |-> <<>>, newIds |-> <<>>]
         st == RunToAwait([calls |-> Append(bpCalls, c),
                           queue |-> runtime.queue, ids |-> breakpointIds],
                          Len(bpCalls) + 1)
     IN /\ bpCalls' = st.calls
        /\ runtime' = [runtime EXCEPT !.queue = st.queue]
        /\ breakpointIds' = st.ids
  /\ UNCHANGED <<breakpoints, peerBp, lastCall, mgrVars, adVars, otherVars>>

\* the runtime handles the oldest request and its response (handleCdpMessage)
\* resumes the call that sent it; a Debugger.removeBreakpoint may fail, which
\* setBreakpoints does not catch
CdpReply ==
  /\ runtime.queue # <<>>
  /\ LET i == Head(runtime.queue)
         c == bpCalls[i]
         queue == Tail(runtime.queue)
     IN IF c.pc = "removing"
        THEN \E fails \in BOOLEAN :
               IF fails
               THEN /\ bpCalls' = [bpCalls EXCEPT ![i].pc = "failed"]
                    /\ runtime' = [runtime EXCEPT !.queue = queue]
                    /\ UNCHANGED breakpointIds
               ELSE LET st == RunToAwait(
                                [calls |-> [bpCalls EXCEPT
                                              ![i].k = @ + 1,
                                              ![i].removed =
                                                 Append(@, c.existingIds[c.k])],
                                 queue |-> queue, ids |-> breakpointIds], i)
                    IN /\ bpCalls' = st.calls
                       /\ runtime' = [installed |-> runtime.installed
                                                      \ {c.existingIds[c.k]},
                                      queue |-> st.queue]
                       /\ breakpointIds' = st.ids
        ELSE LET bp == c.bps[c.k]
                 lineNumber == ToCdpLine(bp.line)
                 a == SetBreakpointByUrl(runtime.installed, c.file, lineNumber)
                 id == <<c.file, lineNumber>>
                 r == IF a.kind = "err"
                      THEN [id |-> NoId, verified |-> FALSE, line |-> bp.line]
                      ELSE [id |-> Len(c.results),
                            verified |-> a.kind = "loc",
                            line |-> IF a.kind = "loc" THEN a.lineNumber + 1
                                     ELSE bp.line]
                 st == RunToAwait(
                         [calls |-> [bpCalls EXCEPT
                                       ![i].k = @ + 1,
                                       ![i].lineNumbers = Append(@, lineNumber),
                                       ![i].answers = Append(@, a),
                                       ![i].results = Append(@, r),
                                       ![i].newIds = IF a.kind = "err" THEN @
                                                     ELSE Append(@, id)],
                          queue |-> queue, ids |-> breakpointIds], i)
             IN /\ bpCalls' = st.calls
                /\ runtime' = [installed |-> IF a.kind = "err"
                                             THEN runtime.installed
                                             ELSE runtime.installed \cup {id},
                               queue |-> st.queue]
                /\ breakpointIds' = st.ids
  /\ UNCHANGED <<breakpoints, peerBp, lastCall, mgrVars, adVars, otherVars>>

(***************************************************************************)
(* SpecMgr: any sequence of create and stop calls.                         *)
(***************************************************************************)
InitMgr ==
  /\ activeSession = 0
  /\ sessionCounter = 0
  /\ adapters = <<>>
  /\ mgrLast = [op |-> "none", result |-> "ok"]
  /\ breakpoints = EmptyReg
  /\ breakpointIds = EmptyReg
  /\ peerBp = [l \in Lines |-> [kind |-> "loc", line |-> l]]
  /\ lastCall = NoCall
  /\ bpCalls = <<>>
  /\ runtime = [installed |-> {}, queue |-> <<>>]
  /\ AdapterIdle
  /\ PhaseIdle
  /\ ClientIdle

MgrCreate ==
  /\ \E t \in TypeArgs, p \in Programs, o \in StartOutcomes : Create(t, p, o)
  /\ UNCHANGED <<adVars, otherVars>>

MgrStop == Stop /\ UNCHANGED <<adVars, otherVars>>

NextMgr == MgrCreate \/ MgrStop

SpecMgr == InitMgr /\ [][NextMgr]_vars

(***************************************************************************)
(* SpecBp: the breakpoint tools on a session that create has returned,     *)
(* for either adapter type and any way the runtime resolves lines.         *)
(***************************************************************************)
InitBp ==
  /\ activeSession = 1
  /\ sessionCounter = 1
  /\ \E t \in Factories :
       /\ adapters = <<StartedAdapter(t, "ok")>>
       /\ peerBp \in PeerBpChoices(t)
  /\ mgrLast = [op |-> "create", result |-> "ok"]
  /\ breakpoints = EmptyReg
  /\ breakpointIds = EmptyReg
  /\ lastCall = NoCall
  /\ bpCalls = <<>>
  /\ runtime = [installed |-> {}, queue |-> <<>>]
  /\ AdapterIdle
  /\ PhaseIdle
  /\ ClientIdle

BpSet ==
  \E f \in Files, reqs \in SeqsUpTo(SourceBreakpoints, MaxReq), th \in BOOLEAN :
    /\ SetBreakpoints(f, reqs, th)
    /\ UNCHANGED <<mgrVars, peerBp, bpCalls, runtime, adVars, otherVars>>

BpRemove ==
  \E f \in Files, ls \in LineArgs, th \in BOOLEAN :
    /\ RemoveBreakpoints(f, ls, th)
    /\ UNCHANGED <<mgrVars, peerBp, bpCalls, runtime, adVars, otherVars>>

BpList == ListBreakpoints /\ UNCHANGED <<mgrVars, peerBp, bpCalls, runtime, adVars, otherVars>>

NextBp == BpSet \/ BpRemove \/ BpList

SpecBp == InitBp /\ [][NextBp]_vars

(***************************************************************************)
(* SpecNodeBp: setBreakpoints calls on a started NodeAdapter, one after    *)
(* the other or with their awaits interleaved, for any way the runtime     *)
(* resolves lines.                                                         *)
(***************************************************************************)
NextNodeBp ==
  \/ \E f \in Files, bps \in SeqsUpTo(SourceBreakpoints, MaxReq) :
       NodeSetBreakpoints(f, bps)
  \/ CdpReply

InitNodeBp == InitBp /\ AdapterType = "node"

SpecNodeBp == InitNodeBp /\ [][NextNodeBp]_vars

(***************************************************************************)
(* SpecAdapter: one start_debug_session, continue/step calls, one          *)
(* stop_debug_session, against a peer that answers or not, pauses, ends,   *)
(* and a child that may exit at any time.                                  *)
(***************************************************************************)
InitAdapter == InitMgr

AdStart == \E t \in Factories : StartSession(t)

AdControlFlow == \E op \in Ops : ControlFlow(op)

AdTimer == \E w \in DOMAIN waits : TimerFire(w)

NextAdapter ==
  \/ AdStart \/ AdControlFlow \/ StopSession
  \/ PeerHandle \/ PeerPause \/ PeerTerminated \/ PeerExit
  \/ DeliverHandshake \/ DeliverResume \/ DeliverStackTrace
  \/ DeliverDisconnect \/ DeliverStopped \/ DeliverTerminated
  \/ DeliverExit \/ DeliverClose \/ AdTimer

SpecAdapter == InitAdapter /\ [][NextAdapter]_vars

(***************************************************************************)
(* SpecInitialPause: one start_debug_session and one further call of       *)
(* adapter.waitForInitialPause(), made at any time, with the peer and the  *)
(* timers.                                                                 *)
(***************************************************************************)
NextInitialPause ==
  \/ AdStart \/ WaitForInitialPause
  \/ PeerHandle \/ PeerPause \/ PeerTerminated \/ PeerExit
  \/ DeliverHandshake \/ DeliverStackTrace \/ DeliverStopped
  \/ DeliverTerminated \/ DeliverExit \/ DeliverClose \/ AdTimer

SpecInitialPause == InitAdapter /\ [][NextInitialPause]_vars

(***************************************************************************)
(* SpecPhase: any sequence of calls of the transitionPhase tool and of     *)
(* DebugPhase's create, clear and setAutoConfirm.                          *)
(***************************************************************************)
NextPhase ==
  \/ \E s \in SessionIDs, to \in Range(PHASES) :
       TransitionPhase(s, to) /\ UNCHANGED heldStates
  \/ \E s \in SessionIDs : CreateCall(s) /\ UNCHANGED heldStates
  \/ \E s \in SessionIDs : Clear(s) /\ UNCHANGED heldStates
  \/ \E s \in SessionIDs, v \in BOOLEAN : setAutoConfirm(s, v) /\ UNCHANGED heldStates

SpecPhase == InitMgr /\ [][NextPhase]_vars

(***************************************************************************)
(* SpecTools: isToolAllowed on every phase and tool id.                    *)
(***************************************************************************)
SpecTools == InitMgr /\ [][IsToolAllowedCall]_vars

(***************************************************************************)
(* SpecGated: one agent session whose caller dispatches a tool only when   *)
(* isToolAllowed admits it for the phase the store holds.  Of the tools of *)
(* PHASE_TOOLS, start_debug_session and stop_debug_session write the       *)
(* active session, the breakpoint tools ask for it, and transitionPhase    *)
(* moves the phase.                                                        *)
(***************************************************************************)
GatedSession == "ses_1"

\* the file its breakpoint calls name
GatedFile == "/tmp/a.js"

\* the State the caller reads: the entry of the session, or the State
\* getOrCreate would make
CurrentState == getOrCreate(store, GatedSession)[GatedSession]

\* the caller's test before it dispatches toolID
Gate(toolID) == isToolAllowed(CurrentState.currentPhase, toolID)

GatedTransition ==
  /\ Gate("transitionPhase")
  /\ \E to \in Range(PHASES) : TransitionPhase(GatedSession, to)
  /\ UNCHANGED heldStates

GatedStart ==
  /\ Gate("debugger_start_debug_session")
  /\ \E t \in {"", "node", "ruby"}, p \in {ProgJs, ProgTxt},
        o \in {"ok", "failAfterSpawn"} :
       Create(t, p, o)
  /\ UNCHANGED <<adVars, otherVars>>

GatedStop ==
  /\ Gate("debugger_stop_debug_session")
  /\ Stop
  /\ UNCHANGED <<adVars, otherVars>>

GatedSet ==
  /\ Gate("debugger_set_breakpoints")
  /\ \E reqs \in SeqsUpTo([line : Lines, condition : {NoCond}], MaxToolReq),
        th \in BOOLEAN :
       SetBreakpoints(GatedFile, reqs, th)
  /\ UNCHANGED <<mgrVars, peerBp, bpCalls, runtime, adVars, otherVars>>

GatedRemove ==
  /\ Gate("debugger_remove_breakpoints")
  /\ \E ls \in {NoLines, [given |-> TRUE, vals |-> {1}]}, th \in BOOLEAN :
       RemoveBreakpoints(GatedFile, ls, th)
  /\ UNCHANGED <<mgrVars, peerBp, bpCalls, runtime, adVars, otherVars>>

GatedList ==
  /\ Gate("debugger_list_breakpoints")
  /\ ListBreakpoints
  /\ UNCHANGED <<mgrVars, peerBp, bpCalls, runtime, adVars, otherVars>>

NextGated ==
  \/ GatedTransition \/ GatedStart \/ GatedStop
  \/ GatedSet \/ GatedRemove \/ GatedList

SpecGated == InitMgr /\ [][NextGated]_vars

(***************************************************************************)
(* SpecHeld: the functions of DebugPhase called in any order, transition   *)
(* with any State object the caller has kept.                              *)
(***************************************************************************)
NextHeld ==
  \/ \E s \in SessionIDs : CreateKept(s)
  \/ \E s \in SessionIDs : GetOrCreateKept(s)
  \/ \E state \in heldStates, to \in Range(PHASES) : TransitionHeld(state, to)
  \/ \E s \in SessionIDs, v \in BOOLEAN :
       setAutoConfirm(s, v) /\ UNCHANGED heldStates
  \/ \E s \in SessionIDs : Clear(s) /\ UNCHANGED heldStates

SpecHeld == InitMgr /\ [][NextHeld]_vars

(***************************************************************************)
(* SpecClient: a connected correlator of either protocol, its callers and  *)
(* its peer.  SpecClientFair adds what the event loop and the transport    *)
(* give: a response that was written is read, a socket that ended or was   *)
(* destroyed emits close, and the transport does not stay open for ever.   *)
(***************************************************************************)
InitClient ==
  /\ activeSession = 0
  /\ sessionCounter = 0
  /\ adapters = <<>>
  /\ mgrLast = [op |-> "none", result |-> "ok"]
  /\ breakpoints = EmptyReg
  /\ breakpointIds = EmptyReg
  /\ peerBp = [l \in Lines |-> [kind |-> "loc", line |-> l]]
  /\ lastCall = NoCall
  /\ bpCalls = <<>>
  /\ runtime = [installed |-> {}, queue |-> <<>>]
  /\ AdapterIdle
  /\ PhaseIdle
  /\ \E proto \in {"dap", "cdp"} :
       client = [proto |-> proto, seq |-> 1, pending |-> <<>>, connected |-> TRUE]
  /\ promises = <<>>
  /\ wire = {}
  /\ socket = "open"
  /\ buffer = <<>>
  /\ stream = [frames |-> <<>>, arrived |-> 0]
  /\ delivered = <<>>
  /\ events = EventsIdle
  /\ InspectIdle
  /\ CallsIdle

NextClient ==
  \/ sendRequest \/ PeerRespond \/ handleMessage
  \/ ClientDisconnect \/ PeerEnd \/ OnSocketClose

SpecClient == InitClient /\ [][NextClient]_vars

(***************************************************************************)
(* SpecDecoder: a connected DapClient, its callers, and a peer that writes *)
(* frames which arrive in chunks of any size.                              *)
(***************************************************************************)
NextDecoder == sendRequest \/ PeerWrite \/ onData

InitDecoder == InitClient /\ client.proto = "dap"

SpecDecoder == InitDecoder /\ [][NextDecoder]_vars

(***************************************************************************)
(* SpecEvents: a DapClient whose callers register and remove handlers and  *)
(* call once at any time, while events of either name are decoded.         *)
(***************************************************************************)
NextEvents ==
  \/ \E e \in EventNames, h \in Persistent : ClientOn(e, h)
  \/ \E e \in EventNames, h \in Persistent \cup DOMAIN events.once : ClientOff(e, h)
  \/ \E e \in EventNames : ClientOnce(e)
  \/ \E e \in EventNames : HandleEvent(e)

SpecEvents == InitDecoder /\ [][NextEvents]_vars

(***************************************************************************)
(* SpecInspect: a started NodeAdapter whose debuggee emits scriptParsed,   *)
(* paused and resumed events in any order, and inspection calls made at    *)
(* any time.                                                               *)
(***************************************************************************)
InitInspect ==
  /\ activeSession = 1
  /\ sessionCounter = 1
  /\ adapters = <<StartedAdapter("node", "ok")>>
  /\ mgrLast = [op |-> "create", result |-> "ok"]
  /\ breakpoints = EmptyReg
  /\ breakpointIds = EmptyReg
  /\ peerBp = [l \in Lines |-> [kind |-> "loc", line |-> l]]
  /\ lastCall = NoCall
  /\ bpCalls = <<>>
  /\ runtime = [installed |-> {}, queue |-> <<>>]
  /\ session = [stoppedThreadId |-> NoThread, stoppedReason |-> NoReason]
  /\ adapter = [type |-> "node", client |-> TRUE, process |-> TRUE,
                stoppedCallbacks |-> <<SessionListener>>, termHandlers |-> {},
                exitListeners |-> {}, initialPausePromise |-> NoPromise,
                threadId |-> 1, seq |-> 1, pending |-> {}]
  /\ waits = <<>>
  /\ calls = <<>>
  /\ startCall = [pc |-> "returned", step |-> 0, result |-> NoResult,
                  again |-> NoAgain]
  /\ stopCall = "none"
  /\ peer = [child |-> "running", dbg |-> "running", toPeer |-> <<>>, stops |-> 0]
  /\ inbox = <<>>
  /\ link = [sock |-> "open", closeEvt |-> "none", exitEvt |-> "none"]
  /\ PhaseIdle
  /\ ClientIdle

NextInspect ==
  \/ CdpScriptParsed \/ CdpResumed \/ CdpPaused
  \/ GetCallStack \/ GetVariables \/ Evaluate

SpecInspect == InitInspect /\ [][NextInspect]_vars

(***************************************************************************)
(* SpecCreate: create calls made at any time, also while another one       *)
(* awaits, with adapters whose start ends in any of its ways.              *)
(***************************************************************************)
NextCreate ==
  \/ \E t \in TypeArgs, p \in {ProgPy, ProgJs, ProgTxt} : CreateBegins(t, p)
  \/ \E c \in DOMAIN creates : CreateAfterStop(c)
  \/ \E c \in DOMAIN creates, o \in StartOutcomes : CreateAfterStart(c, o)

SpecCreate == InitMgr /\ [][NextCreate]_vars

(***************************************************************************)
(* SpecBpCalls: set_breakpoints and remove_breakpoints calls on a session  *)
(* that create has returned, made at any time, also while another call     *)
(* awaits the adapter.                                                     *)
(***************************************************************************)
NextBpCalls ==
  \/ \E f \in Files, reqs \in SeqsUpTo(SourceBreakpoints, MaxToolReq) \ {<<>>} :
       ToolSetBegins(f, reqs)
  \/ \E f \in Files, ls \in LineArgs : ToolRemoveBegins(f, ls)
  \/ AdapterAnswers
  \/ \E c \in DOMAIN toolCalls.calls : ToolGoesOn(c)

SpecBpCalls == InitBp /\ [][NextBpCalls]_vars

SpecClientFair ==
  /\ SpecClient
  /\ WF_vars(handleMessage)
  /\ WF_vars(OnSocketClose)
  /\ WF_vars(PeerEnd)

(***************************************************************************)
(* Claims about the stop/resume synchronisation, checked under             *)
(* SpecAdapter.                                                            *)
(***************************************************************************)
Settled(wt) == wt.state \in {"resolved", "rejected"}

\* C1: for every continue/step call that wrote its resume request, the
\* pause handler of the call was in the adapter's stoppedCallbacks when the
\* request was written, and it stays there for as long as the wait is
\* armed, so a stopped/paused event read after the write finds it registered.
C1_ListenerBeforeWrite ==
  \A c \in DOMAIN calls :
    calls[c].written =>
      /\ calls[c].listening
      /\ waits[calls[c].wait].state = "armed" =>
           calls[c].wait \in Range(adapter.stoppedCallbacks)

\* a call wrote its resume request and a stopped event read afterwards ran
\* its handler: the call returned that stop
C1_Witness ==
  \E c \in DOMAIN calls :
    /\ calls[c].written
    /\ calls[c].listening
    /\ calls[c].state = "returned"
    /\ calls[c].result.kind = "stopped"

\* C2: a pause wait armed by start, continue or step settles exactly once,
\* on the first of: the next stopped/paused event, the child's exit or a
\* terminated event, the 30 s timer with the failure 'Timed out waiting for
\* debugger to stop'; no such event goes by an armed wait, a settled wait
\* has no listener in stoppedCallbacks and no armed timer, and none of its
\* handlers runs after its cleanup.
C2_WaitSettlesOnce ==
  \A w \in DOMAIN waits :
    /\ waits[w].missed = "none"
    /\ ~waits[w].late
    /\ waits[w].state = "rejected" =>
         waits[w].result = ErrorResult("Timed out waiting for debugger to stop")
    /\ Settled(waits[w]) =>
         /\ w \notin Range(adapter.stoppedCallbacks)
         /\ waits[w].timer # "armed"

\* nothing is in flight and no timer is armed: no event will reach the
\* adapter any more
Quiescent ==
  /\ inbox = <<>>
  /\ link.exitEvt # "pending"
  /\ link.closeEvt # "pending"
  /\ \A w \in DOMAIN waits : waits[w].timer # "armed"
  /\ peer.toPeer = <<>> \/ peer.child # "running"

\* C3: a continue/step call that was outstanding when stop_debug_session
\* was invoked ends with a terminated stop result: the stop does not fail it
\* with the error of the closed connection, it is not left pending once the
\* stop is done and nothing is in flight, and requireActive fails after the
\* stop.
C3_StopDuringCall ==
  \A c \in DOMAIN calls :
    (calls[c].stopDuring /\ stopCall = "done") =>
      /\ calls[c].result # ErrorResult("Connection closed")
      /\ Quiescent => calls[c].state = "returned"
      /\ ~requireActive

\* C4: once the 30 s timer of the wait of a continue/step call has fired,
\* the call has returned to its caller.
C4_ReturnedOnceTimerFired ==
  \A c \in DOMAIN calls :
    (calls[c].wait # NoPromise /\ waits[calls[c].wait].timer = "fired") =>
      calls[c].state = "returned"

SessionNull ==
  /\ session.stoppedThreadId = NoThread
  /\ session.stoppedReason = NoReason

\* C6: stoppedThreadId and stoppedReason are null before the debuggee's
\* first pause, and every continue/step call resets them to null.
C6_StoppedFieldsIffPaused ==
  /\ [](peer.stops = 0 => SessionNull)
  /\ [][Len(calls') > Len(calls) => SessionNull']_vars

(***************************************************************************)
(* Claims about the session manager, checked under SpecMgr.                *)
(***************************************************************************)
IsDisconnected(a) == a.proc # "running" /\ a.transport # "open"

\* C5: after any sequence of create and stop calls at most one session
\* exists: the active slot names at most one session, and every adapter that
\* an earlier create started was disconnected (child killed, transport
\* closed) before the adapter of a later create was started.
C5_EarlierAdaptersDisconnected ==
  /\ activeSession \in {0} \cup DOMAIN adapters
  /\ \A i, j \in DOMAIN adapters : i < j => IsDisconnected(adapters[i])

(***************************************************************************)
(* Claims about the breakpoint tools, checked under SpecBp.                *)
(***************************************************************************)
SetDone == lastCall.op = "set" /\ lastCall.outcome = "ok"

\* line, condition and verified flag of every entry, in order
ViewOf(list) ==
  [i \in 1..Len(list) |-> [line |-> list[i].line,
                            condition |-> list[i].condition,
                            verified |-> list[i].verified]]

ReqLines(reqs) == {reqs[k].line : k \in 1..Len(reqs)}

\* C7: after set_breakpoints(file, L) has completed, list_breakpoints shows
\* for the file exactly one entry for each line of L, and no two entries of
\* the file have the same line, whatever the adapter answered.
C7_OneEntryPerRequestedLine ==
  SetDone =>
    LET lst == getBreakpointsForFile(Listed, lastCall.file)
    IN /\ \A l \in ReqLines(lastCall.reqs) :
            Cardinality({i \in 1..Len(lst) : lst[i].line = l}) = 1
       /\ \A i, j \in 1..Len(lst) : lst[i].line = lst[j].line => i = j

\* the request of L that the merge leaves for a line: the last one
LastReq(reqs, l) ==
  reqs[CHOOSE k \in 1..Len(reqs) :
         /\ reqs[k].line = l
         /\ \A m \in (k + 1)..Len(reqs) : reqs[m].line # l]

\* the requested lines the list does not hold, in order of first request
NewLines(existing, reqs) ==
  LET held == {existing[i].line : i \in 1..Len(existing)}
      first == {k \in 1..Len(reqs) :
                  /\ reqs[k].line \notin held
                  /\ \A m \in 1..(k - 1) : reqs[m].line # reqs[k].line}
  IN [j \in 1..Cardinality(first) |->
        reqs[CHOOSE k \in first : Cardinality({m \in first : m < k}) = j - 1].line]

\* the merged list as C8 describes it
MergedAsClaimed(existing, reqs, sent) ==
  LET new == NewLines(existing, reqs)
  IN /\ Len(sent) = Len(existing) + Len(new)
     /\ \A i \in 1..Len(existing) :
          sent[i] = IF existing[i].line \in ReqLines(reqs)
                    THEN LastReq(reqs, existing[i].line)
                    ELSE [line |-> existing[i].line,
                          condition |-> existing[i].condition]
     /\ \A j \in 1..Len(new) : sent[Len(existing) + j] = LastReq(reqs, new[j])

\* C8: set_breakpoints(file, L) sends the adapter the file's list merged
\* with L by line: every existing entry whose line is requested is replaced
\* in place by the request (its old condition dropped), the other entries
\* keep their fields and order, and the requested lines not held are
\* appended.
C8_MergeByLine ==
  [][(lastCall'.op = "set" /\ lastCall'.outcome = "ok") =>
       /\ lastCall'.sent.made
       /\ MergedAsClaimed(getBreakpointsForFile(breakpoints, lastCall'.file),
                          lastCall'.reqs, lastCall'.sent.list)]_vars

\* C9: set_breakpoints(F, L) called twice in a row, the adapter answering
\* the same way for the same requested line, leaves F's list (lines,
\* conditions, verified flags, count) as it was after the first call.
C9_SetTwiceSame ==
  [][(/\ SetDone
      /\ lastCall'.op = "set" /\ lastCall'.outcome = "ok"
      /\ lastCall'.file = lastCall.file
      /\ lastCall'.reqs = lastCall.reqs) =>
       ViewOf(getBreakpointsForFile(breakpoints', lastCall.file))
         = ViewOf(getBreakpointsForFile(breakpoints, lastCall.file))]_vars

SourceOf(list) ==
  [i \in 1..Len(list) |-> [line |-> list[i].line, condition |-> list[i].condition]]

\* C10: remove_breakpoints(F, lines) leaves of F's list exactly the entries
\* whose line is not in lines and sends those to the adapter;
\* remove_breakpoints(F) with lines omitted sends the empty list and F is no
\* key of the registry afterwards; no key of the registry ever maps to an
\* empty list.
C10_Remove ==
  [][/\ (lastCall'.op = "remove" /\ lastCall'.outcome = "ok") =>
          LET f == lastCall'.file
              before == getBreakpointsForFile(breakpoints, f)
              kept == SelectSeq(before,
                        LAMBDA bp : bp.line \notin lastCall'.lines.vals)
          IN IF lastCall'.lines.given
             THEN /\ SourceOf(getBreakpointsForFile(breakpoints', f)) = SourceOf(kept)
                  /\ lastCall'.sent = Sent(SourceOf(kept))
             ELSE /\ lastCall'.sent = Sent(<<>>)
                  /\ f \notin DOMAIN Listed'
     /\ \A g \in DOMAIN breakpoints' : breakpoints'[g] # <<>>]_vars

\* a remove with lines given that dropped one entry of the file and kept,
\* and re-sent, another
C10_Witness ==
  /\ lastCall.op = "remove" /\ lastCall.outcome = "ok"
  /\ lastCall.lines.given
  /\ Len(lastCall.sent.list) >= 1
  /\ lastCall.nBefore > Len(lastCall.sent.list)
  /\ lastCall.file \in DOMAIN breakpoints

(***************************************************************************)
(* Claims about the phase machine, checked under SpecPhase.                *)
(***************************************************************************)
\* the six edges of the ring
RingEdges ==
  {<<"PLANNING", "CODING">>, <<"CODING", "BREAKPOINTING">>,
   <<"BREAKPOINTING", "DEBUGGING">>, <<"DEBUGGING", "EXPLAINING">>,
   <<"EXPLAINING", "CONFIRMING">>, <<"CONFIRMING", "PLANNING">>}

\* the one successor of a phase on the ring
RingSuccessor(p) == CHOOSE q \in Range(PHASES) : <<p, q>> \in RingEdges

\* C19: a transition call succeeds, and moves the State to the requested
\* phase, if and only if (current phase, to) is one of the six edges of the
\* ring; for every other pair, to = current phase included, it fails with
\* 'Cannot transition from <A> to <B>. Valid transitions: <successor>' and
\* the phase stays.
C19_RingTransitions ==
  lastTransition.to # "none" =>
    IF <<lastTransition.from, lastTransition.to>> \in RingEdges
    THEN /\ ~lastTransition.threw
         /\ store[lastTransition.sessionID].currentPhase = lastTransition.to
    ELSE /\ lastTransition.threw
         /\ lastTransition.message =
              <<"Cannot transition from ", lastTransition.from, " to ",
                lastTransition.to, ". Valid transitions: ",
                RingSuccessor(lastTransition.from)>>
         /\ store[lastTransition.sessionID].currentPhase = lastTransition.from

\* after a lap of the ring, a transition to the current phase was rejected
C19_Witness ==
  /\ lastTransition.threw
  /\ store[lastTransition.sessionID].currentStep > 0
  /\ lastTransition.to = lastTransition.from

\* C20: after every sequence of transition calls on a State created at
\* PLANNING with step 0, currentStep is the number of completed
\* CONFIRMING -> PLANNING edges; a call changes it only on that edge, by
\* one, and a rejected call leaves it.
C20_StepCountsConfirmEdges ==
  /\ [](\A s \in DOMAIN store : store[s].currentStep = confirmEdges[s])
  /\ [][\A s \in DOMAIN store :
          lastTransition'.sessionID = s
            => store'[s].currentStep =
                 IF /\ lastTransition'.from = "CONFIRMING"
                    /\ lastTransition'.to = "PLANNING"
                    /\ ~lastTransition'.threw
                 THEN store[s].currentStep + 1 ELSE store[s].currentStep]_vars

\* two laps were completed and the last call was rejected
C20_Witness ==
  /\ lastTransition.threw
  /\ confirmEdges[lastTransition.sessionID] = 2
  /\ store[lastTransition.sessionID].currentStep = 2

(***************************************************************************)
(* Claims about the correlators, checked under SpecClient and, for what    *)
(* must eventually happen, SpecClientFair.                                 *)
(***************************************************************************)
IsPending(n) == n \in DOMAIN client.pending

\* C11: every sendRequest of the DAP client takes a fresh sequence number,
\* 1 for the first and the next number for each later one; the pending
\* table holds one entry per unsettled request, under its own number; and
\* every entry put in the table is eventually removed from it, whenever
\* the request was sent.
C11_CorrelatorExclusive ==
  /\ [](client.proto = "dap" =>
          /\ \A k \in DOMAIN promises : promises[k].id = k
          /\ \A k \in DOMAIN promises :
               promises[k].state = "pending" =>
                 /\ IsPending(k)
                 /\ client.pending[k] = k)
  /\ \A n \in 1..MaxRequests :
       (client.proto = "dap" /\ IsPending(n)) ~> ~IsPending(n)

\* the promises of the requests in the pending table
PendingPromises == {client.pending[n] : n \in DOMAIN client.pending}

\* the step is the close of the transport of a client of protocol proto
Closes(proto) ==
  client.proto = proto /\ socket # "closed" /\ socket' = "closed"

\* the close failed every request that was pending and emptied the table
ClosedFailsPending ==
  /\ DOMAIN client'.pending = {}
  /\ \A k \in PendingPromises :
       /\ promises'[k].state = "rejected"
       /\ promises'[k].detail = <<"Connection closed">>

\* a settled promise stays as it was settled
SettledOnce ==
  \A k \in DOMAIN promises :
    promises[k].state # "pending" => promises'[k] = promises[k]

\* C12: when the DAP transport closes, every request pending at that moment
\* fails with 'Connection closed' and the pending table becomes empty; no
\* request is settled a second time, at the close or afterwards.
C12_DapCloseFailsPending ==
  /\ [][Closes("dap") => ClosedFailsPending]_vars
  /\ [][client.proto = "dap" => SettledOnce]_vars
  /\ [](client.proto = "dap" =>
          \A k \in DOMAIN promises : promises[k].settles <= 1)

\* the DAP transport closed with two requests pending, one other answered
C12_Witness ==
  /\ client.proto = "dap"
  /\ socket = "closed"
  /\ Cardinality({k \in DOMAIN promises :
                    promises[k].detail = <<"Connection closed">>}) = 2
  /\ \E k \in DOMAIN promises : promises[k].state = "fulfilled"

\* C13: when the WebSocket closes, by the peer or by the adapter's
\* disconnect, every CDP request pending at that moment fails with
\* 'Connection closed' and leaves the pending table, so that no cdpSend
\* promise is pending once the transport is closed.
C13_CdpCloseFailsPending ==
  /\ [][Closes("cdp") => ClosedFailsPending]_vars
  /\ []((client.proto = "cdp" /\ socket = "closed") =>
          \A k \in DOMAIN promises : promises[k].state # "pending")

\* the step reads response m
Reads(m) == m \in wire /\ wire' = wire \ {m} /\ socket' = socket

\* what reading response m does to the promise k it is for
SettledBy(k, m) ==
  /\ promises'[k].state = IF m.success THEN "fulfilled" ELSE "rejected"
  /\ promises'[k].by = promises[k].id
  /\ ~m.success =>
       promises'[k].detail =
         IF m.message # NoMessage THEN <<m.message>>
         ELSE IF client.proto = "dap" THEN <<"Request failed: ", m.command>>
         ELSE <<"">>

\* C14: a response whose number is pending removes that entry and settles
\* exactly that request, fulfilled on success, failed with the peer's
\* message otherwise (DAP: 'Request failed: <command>' without message); a
\* response whose number is not pending changes nothing; this holds in
\* whatever order the responses arrive, and no request is settled twice or
\* by the response to another request.
C14_ResponseSettlesItsRequest ==
  /\ [][\A m \in wire :
          Reads(m) =>
            IF IsPending(m.id)
            THEN /\ ~IsPending(m.id)'
                 /\ DOMAIN client'.pending = DOMAIN client.pending \ {m.id}
                 /\ SettledBy(client.pending[m.id], m)
                 /\ promises[client.pending[m.id]].id = m.id
                 /\ \A k \in DOMAIN promises :
                      k # client.pending[m.id] => promises'[k] = promises[k]
            ELSE UNCHANGED <<client, promises>>]_vars
  /\ [](\A k \in DOMAIN promises :
          /\ promises[k].settles <= 1
          /\ promises[k].by \in {0, promises[k].id})

\* the second request was answered before the first, and a response with
\* the number of the answered request is still to be read
C14_Witness ==
  /\ Len(promises) >= 2
  /\ promises[1].state = "pending"
  /\ promises[2].state \in {"fulfilled", "rejected"}
  /\ promises[2].by = 2
  /\ \E m \in wire : m.id = 2

(***************************************************************************)
(* Further claims about the session and its adapter, checked under         *)
(* SpecAdapter.                                                            *)
(***************************************************************************)
\* C15: when a continue/step call completes with a stop that is not the
\* end of the debuggee, the thread id of its result is the thread id of the
\* last stopped event the adapter was given before the call completed,
\* which the stopped listener of the adapter keeps in threadId.
C15_ThreadOfLastStop ==
  [][\A c \in DOMAIN calls :
       (/\ calls[c].state # "returned"
        /\ calls'[c].state = "returned"
        /\ calls'[c].result.kind = "stopped") =>
         calls'[c].result.threadId = adapter'.threadId]_vars

\* C16: the waitForInitialPause call of start_debug_session returns the
\* stop that settled the wait armed by start; a call made after that one
\* completed, and a call on an adapter that was never started, returns at
\* once the sentinel with reason 'entry', without waiting for an event.
\* Checked under SpecInitialPause.
C16_InitialPauseIdempotent ==
  /\ startCall.pc = "returned" =>
       /\ waits[1].state = "resolved"
       /\ startCall.result = waits[1].result
  /\ (startCall.again.state # "none"
        /\ (startCall.again.firstDone \/ startCall.pc = "none")) =>
       /\ startCall.again.state = "returned"
       /\ startCall.again.result = EntrySentinel

\* C17: stop_debug_session with an active session returns, and when it has
\* returned the active slot is null, so that requireActive fails from then
\* on; it is not left waiting once nothing is in flight any more.  Checked
\* under SpecAdapter.
C17_StopClearsSlot ==
  /\ stopCall = "done" => ~requireActive
  /\ (stopCall # "none" /\ Quiescent) => ~requireActive

\* C18: adapter.disconnect returns in whatever state the adapter is, the
\* child exited or the transport closed by the peer included, and when it
\* has returned the transport is closed, the child is not running and the
\* adapter holds neither.  Checked under SpecAdapter.
C18_DisconnectTotal ==
  /\ (stopCall # "none" /\ Quiescent) => stopCall = "done"
  /\ stopCall = "done" =>
       /\ link.sock # "open"
       /\ peer.child # "running"
       /\ ~adapter.client
       /\ ~adapter.process

(***************************************************************************)
(* Claims about the registry of phase States and the transitionPhase       *)
(* tool, checked under SpecPhase, and about the tool lists, checked under  *)
(* SpecTools.                                                              *)
(***************************************************************************)
\* the State the tool's getOrCreate(s) returns on the store of this state
Got(s) ==
  IF s \in DOMAIN store THEN store[s]
  ELSE [sessionID |-> s, currentPhase |-> "PLANNING", currentStep |-> 0,
        totalSteps |-> "null", stepDescriptions |-> <<>>,
        autoConfirm |-> FALSE]

\* the entries of the ids other than s stay as they are
OthersKept(s) ==
  \A o \in SessionIDs \ {s} :
    /\ o \in DOMAIN store' <=> o \in DOMAIN store
    /\ o \in DOMAIN store => store'[o] = store[o]

\* C21: a rejected transition changes nothing: the entry of the registry,
\* which is the State passed to transition, keeps its phase, step,
\* totalSteps, stepDescriptions and autoConfirm, and the transitionPhase
\* tool does not raise but returns a result whose metadata has error = true
\* and the unchanged phase and step.
C21_RejectedTransitionChangesNothing ==
  [][lastTransition'.threw =>
       LET s == lastTransition'.sessionID
       IN /\ store'[s] = Got(s)
          /\ OthersKept(s)
          /\ lastTransition'.error
          /\ lastTransition'.phase = Got(s).currentPhase
          /\ lastTransition'.step = Got(s).currentStep]_vars

\* a transition was rejected on an entry past its first lap with
\* autoConfirm set
C21_Witness ==
  /\ lastTransition.threw
  /\ lastTransition.error
  /\ lastTransition.step = 1
  /\ lastTransition.phase = "DEBUGGING"
  /\ store[lastTransition.sessionID].autoConfirm

\* C22: isToolAllowed(phase, toolID) is true exactly when toolID is in the
\* list PHASE_TOOLS has for the phase; transitionPhase is allowed in every
\* phase, and it is the only one: EXPLAINING allows nothing else, so every
\* other tool is rejected in at least one phase.
C22_ToolAllowlists ==
  toolCheck.phase # "none" =>
    /\ toolCheck.allowed <=>
         toolCheck.toolID \in Range(PHASE_TOOLS[toolCheck.phase])
    /\ toolCheck.toolID = "transitionPhase" => toolCheck.allowed
    /\ (toolCheck.phase = "EXPLAINING" /\ toolCheck.toolID # "transitionPhase")
         => ~toolCheck.allowed

\* read, which PLANNING allows, was rejected in EXPLAINING
C22_Witness ==
  /\ toolCheck.phase = "EXPLAINING"
  /\ toolCheck.toolID = "read"
  /\ ~toolCheck.allowed

\* C23: the registry is keyed by session id.  The tool's getOrCreate works
\* on the stored State as it is when there is one, and else on a new State
\* (PLANNING, step 0, totalSteps null, autoConfirm false) that it stores;
\* after a successful transition the entry is the new State; after
\* clear(id) there is no entry of id; setAutoConfirm(id, v) changes only
\* autoConfirm of an existing entry and does nothing for an unknown id.
C23_Registry ==
  [][/\ \A s \in SessionIDs, to \in Range(PHASES) :
          TransitionPhase(s, to) =>
            /\ lastTransition'.from = Got(s).currentPhase
            /\ store'[s] = IF lastTransition'.threw THEN Got(s)
                           ELSE [Got(s) EXCEPT
                                   !.currentPhase = to,
                                   !.currentStep = lastTransition'.step]
            /\ OthersKept(s)
     /\ \A s \in SessionIDs :
          Clear(s) => s \notin DOMAIN store' /\ OthersKept(s)
     /\ \A s \in SessionIDs, v \in BOOLEAN :
          setAutoConfirm(s, v) =>
            /\ s \in DOMAIN store' <=> s \in DOMAIN store
            /\ s \in DOMAIN store =>
                 store'[s] = [store[s] EXCEPT !.autoConfirm = v]
            /\ OthersKept(s)]_vars

\* one id has no entry, the other has one that was moved on and has
\* autoConfirm set, and its last transition succeeded
C23_Witness ==
  /\ DOMAIN store = {"ses_2"}
  /\ store["ses_2"].autoConfirm
  /\ store["ses_2"].currentPhase = "BREAKPOINTING"
  /\ lastTransition.sessionID = "ses_2"
  /\ ~lastTransition.threw

(***************************************************************************)
(* Claims about the decoder of DapClient, checked under SpecDecoder.       *)
(***************************************************************************)
\* frame i of the stream is a frame of a JSON message
WellFormed(i) == \E b \in Bodies : stream.frames[i] = Frame(b)

\* the number of bytes of the first k frames of the stream
Upto(k) == Len(Bytes(SubSeq(stream.frames, 1, k)))

\* the number of frames that have arrived whole
Whole ==
  CHOOSE k \in 0..Len(stream.frames) :
    /\ Upto(k) <= stream.arrived
    /\ k < Len(stream.frames) => Upto(k + 1) > stream.arrived

\* the member that tells which message frame i carries, and the same of a
\* decoded message
Carried(i) == stream.frames[i][Len(Frame(<<>>)) + 2]
KindOf(m) ==
  IF m.type = "event" THEN "ev" ELSE IF m.id = 1 THEN "r1" ELSE "r2"

\* the messages of the well-formed frames among frames from..to, in order
RECURSIVE Carries(_, _)
Carries(from, to) ==
  IF from > to THEN <<>>
  ELSE (IF WellFormed(from) THEN <<Carried(from)>> ELSE <<>>)
         \o Carries(from + 1, to)

\* C24: decoding does not depend on how the byte stream is cut into chunks:
\* whenever the peer has written well-formed frames only, and whatever the
\* chunks in which their bytes arrived (cuts inside the header, inside
\* "\r\n\r\n" and inside the body included), the decoder has delivered the
\* messages of exactly the frames that arrived whole, once each and in
\* order, and its buffer holds the bytes of the incomplete last frame.
C24_ChunkingInsensitive ==
  (\A i \in 1..Len(stream.frames) : WellFormed(i)) =>
    /\ Len(delivered) = Whole
    /\ \A i \in 1..Whole : KindOf(delivered[i]) = Carried(i)
    /\ buffer = SubSeq(Bytes(stream.frames), Upto(Whole) + 1, stream.arrived)

\* two messages were delivered and the chunk ended inside the "\r\n\r\n" of
\* the third frame
C24_Witness ==
  /\ \A i \in 1..Len(stream.frames) : WellFormed(i)
  /\ Len(stream.frames) = 3
  /\ Len(delivered) = 2
  /\ KindOf(delivered[1]) = "r2"
  /\ buffer = <<"Content-Length:", " ", "3", "CR", "LF", "CR">>

\* C25: a malformed frame (a header block without Content-Length, or a body
\* of the announced length that is not JSON) is dropped: in every onData
\* call the messages delivered are those of the well-formed frames that
\* became whole, the buffer holds the bytes after the last whole frame, a
\* promise changes only if one of these messages is the response to its
\* pending request, and such a request is settled and leaves the table.
C25_MalformedFrameDropped ==
  [][stream'.arrived > stream.arrived =>
       LET new == {i \in (Whole + 1)..Whole' : WellFormed(i)}
           Answered(id) ==
             \E i \in new : Carried(i) = IF id = 1 THEN "r1" ELSE
                                         IF id = 2 THEN "r2" ELSE "none"
       IN /\ Len(delivered') = Len(delivered) + Cardinality(new)
          /\ [i \in 1..Cardinality(new) |->
                KindOf(delivered'[Len(delivered) + i])]
               = Carries(Whole + 1, Whole')
          /\ buffer' = SubSeq(Bytes(stream.frames), Upto(Whole') + 1,
                              stream'.arrived)
          /\ \A k \in DOMAIN promises :
               IF promises[k].id \in DOMAIN client.pending
                  /\ Answered(promises[k].id)
               THEN /\ promises'[k].state # "pending"
                    /\ promises'[k].settles = 1
                    /\ promises[k].id \notin DOMAIN client'.pending
               ELSE /\ promises'[k] = promises[k]
                    /\ promises[k].id \in DOMAIN client'.pending
                         <=> promises[k].id \in DOMAIN client.pending]_vars

\* requests 1 and 2 were pending when the failed response to 2 arrived;
\* then a frame that is not JSON, a header block without Content-Length
\* and the response to 1, which resolved request 1
C25_Witness ==
  /\ Len(promises) >= 2
  /\ promises[1].state = "fulfilled"
  /\ promises[2].state = "rejected"
  /\ stream.frames = <<Frame(<<"{", "r2", " ", "}">>),
                       <<"X-Seq:", " ", "7">> \o HeaderEnd,
                       Frame(<<"{", "r1", "}">>)>>
  /\ stream.arrived = Len(Bytes(stream.frames))
  /\ buffer = <<>>

(***************************************************************************)
(* Claims about the type of a new session, checked under SpecMgr.          *)
(***************************************************************************)
\* the type the extension of each program stands for; "" for none
TypeOfProgram(p) ==
  CASE p = <<"/", "a", ".", "p", "y">> -> "python"
    [] p \in {<<"/", "a", ".", "j", "s">>, <<"/", "a", ".", "t", "s">>,
              <<"/", "a", ".", "m", "j", "s">>, <<"/", "a", ".", "c", "j", "s">>,
              <<"/", "a", ".", "t", "s", "x">>,
              <<"/", "a", ".", "j", "s", "x">>} -> "node"
    [] OTHER -> ""

\* a create that failed before it made an adapter: nothing was started, no
\* session is active, and the session that was active has been stopped
NothingStarted ==
  /\ Len(adapters') = Len(adapters)
  /\ sessionCounter' = sessionCounter
  /\ activeSession' = 0
  /\ activeSession # 0 => IsDisconnected(adapters'[activeSession])

\* C26: create with an empty type detects the type from the program's
\* extension: .py gives python; .js, .ts, .mjs, .cjs, .tsx and .jsx give
\* node; any other program (.txt, .rs, no extension, the empty path) fails
\* with 'Cannot auto-detect ...'; an explicit type without a factory fails
\* with 'Unknown adapter type ...'.  On either failure no adapter is
\* started and no session is active, the session that was active having
\* been stopped before.
C26_AutoDetect ==
  [][\A t \in TypeArgs, p \in Programs, o \in StartOutcomes :
       Create(t, p, o) =>
         LET type == IF t = "" THEN TypeOfProgram(p) ELSE t
         IN IF type = ""
            THEN mgrLast'.result = "CannotAutoDetect" /\ NothingStarted
            ELSE IF type \notin {"node", "python"}
            THEN mgrLast'.result = "UnknownAdapterType" /\ NothingStarted
            ELSE /\ mgrLast'.result \in {"ok", "StartFailed"}
                 /\ Len(adapters') = Len(adapters) + 1
                 /\ adapters'[Len(adapters')].type = type]_vars

\* auto-detection failed on a create made while a session was active: its
\* adapter is disconnected and no session is active
C26_Witness ==
  /\ mgrLast = [op |-> "create", result |-> "CannotAutoDetect"]
  /\ activeSession = 0
  /\ Len(adapters) = 1
  /\ adapters[1].transport = "closed"
  /\ adapters[1].proc = "killed"

(***************************************************************************)
(* Claims about NodeAdapter.setBreakpoints, checked under SpecNodeBp.      *)
(***************************************************************************)
\* C27: for each breakpoint that NodeAdapter.setBreakpoints sets at the
\* 1-based line L, the request carries lineNumber = L - 1; when the runtime
\* returns no location the result is verified = false with line L; when it
\* returns locations the result is verified = true with line =
\* locations[0].lineNumber + 1; a failed Debugger.setBreakpointByUrl gives
\* verified = false with line L and the loop goes on; the results of a
\* completed call have one entry per requested breakpoint, in request order.
C27_NodeBreakpointResults ==
  \A n \in DOMAIN bpCalls :
    LET c == bpCalls[n]
    IN /\ c.pc = "done" => Len(c.results) = Len(c.bps)
       /\ c.pc = "setting" => Len(c.results) = c.k - 1
       /\ Len(c.lineNumbers) = Len(c.results)
       /\ \A i \in 1..Len(c.results) :
            /\ c.lineNumbers[i] = c.bps[i].line - 1
            /\ c.results[i].verified = (c.answers[i].kind = "loc")
            /\ c.results[i].line =
                 IF c.answers[i].kind = "loc"
                 THEN c.answers[i].lineNumber + 1
                 ELSE c.bps[i].line

\* a completed call whose first request failed and whose second breakpoint
\* the runtime moved to the next line
C27_Witness ==
  \E n \in DOMAIN bpCalls :
    /\ bpCalls[n].pc = "done"
    /\ Len(bpCalls[n].bps) = 2
    /\ bpCalls[n].answers[1].kind = "err"
    /\ bpCalls[n].bps[2].line = 1
    /\ bpCalls[n].results[2] = [id |-> 1, verified |-> TRUE, line |-> 2]

\* the ids of the breakpoints the runtime holds for a file
InstalledFor(rt, file) == {id \in rt.installed : id[1] = file}

\* C30: when a NodeAdapter.setBreakpoints(file, list) call completes, the
\* breakpoints the runtime holds for the file are exactly those the call
\* created: every id recorded before was removed, the ids recorded now are
\* those of the call's successful Debugger.setBreakpointByUrl requests, and
\* the runtime holds no id of the file that the adapter does not record.
C30_InstalledAreRecorded ==
  [][\A n \in DOMAIN bpCalls' :
       (bpCalls'[n].pc = "done" /\ (n \in DOMAIN bpCalls => bpCalls[n].pc # "done"))
         => LET c == bpCalls'[n]
            IN /\ c.removed = c.existingIds
               /\ breakpointIds'[c.file] = c.newIds
               /\ InstalledFor(runtime', c.file) = Range(c.newIds)]_vars

(***************************************************************************)
(* Claims about the fan-out of stopped events and about the initial wait,  *)
(* checked under SpecAdapter and SpecInitialPause.                         *)
(***************************************************************************)
\* C28: when a stopped / Debugger.paused event is delivered, every listener
\* that is in stoppedCallbacks at that moment is invoked, once; no armed
\* wait whose handler is in the list is passed over, also when a one-shot
\* handler before it removes itself during the fan-out.
C28_FanOutInvokesAll ==
  \A w \in DOMAIN waits : waits[w].missed # "stopped"

\* C29: the initial pause is awaited with the wait that continue and step
\* use, armed inside start, for both adapters: an entry pause that arrives
\* at any time after the arming settles the wait that waitForInitialPause
\* returns, and when the child exits before any entry pause the wait is
\* resolved as terminated at the exit and does not stay armed until its
\* timer fires.
C29_InitialPauseWait ==
  waits # <<>> =>
    /\ waits[1].missed = "none"
    /\ link.exitEvt = "delivered" => waits[1].state # "armed"
    /\ (startCall.pc = "returned" /\ waits[1].state = "resolved")
         => startCall.result = waits[1].result

(***************************************************************************)
(* Claims about the event handlers of DapClient, checked under SpecEvents. *)
(***************************************************************************)
\* the events decoded after the k-th once call that its handler was
\* registered for when they were decoded
HeardBy(k) ==
  {n \in DOMAIN events.log :
     /\ n > events.once[k].armedAt
     /\ events.log[n].event = events.once[k].event
     /\ Includes(events.log[n].registered, k)}

FramesHeard(e) ==
  IF e.method = "Debugger.paused" /\ e.hasFrames THEN e.callFrames ELSE <<>>

\* the position a call selects: frameId + 1, the first without frameId
Selected(c) == IF c.frame.given THEN c.frame.id + 1 ELSE 1

Made == {c \in DOMAIN creates : creates[c].id # 0}

\* C33: session ids come from a counter that only grows.  A session made
\* after another one (its adapter was constructed later) has the larger N,
\* whether the creates succeed, fail in adapter.start or overlap; no two
\* sessions share an id; the active session is one of the sessions made and
\* no id is beyond the counter.
C33_SessionIdsMonotonic ==
  /\ \A c, d \in Made :
       creates[c].adapter < creates[d].adapter => creates[c].id < creates[d].id
  /\ \A c, d \in Made : c # d => creates[c].id # creates[d].id
  /\ \A c \in Made : creates[c].id \in 1..sessionCounter
  /\ activeSession # 0 =>
       \E c \in Made : creates[c].id = activeSession /\ creates[c].pc = "returned"

\* C33 witness: a create failed in adapter.start after the counter was
\* taken, and a later create made the active session
C33_Witness ==
  \E c, d \in Made :
    /\ creates[c].result = "StartFailed"
    /\ creates[c].adapter < creates[d].adapter
    /\ creates[d].id = activeSession

\* C34: a continue/step call that has returned, with a stop or with the
\* error of its failed resume request, has released what it registered:
\* its pause-listener is not in stoppedCallbacks and its timer is not
\* armed, so that with no call in flight the list holds only listeners
\* that no returned call put there.
C34_FailedResumeReleasesWait ==
  \A c \in DOMAIN calls :
    calls[c].state = "returned" /\ calls[c].wait # NoPromise =>
      /\ calls[c].wait \notin Range(adapter.stoppedCallbacks)
      /\ waits[calls[c].wait].timer # "armed"

\* C35: when a create call was issued while another one awaited
\* adapter.start and both have returned a session, neither of the two
\* adapters is left with a child process or a transport unless it is the
\* adapter of the active session.
C35_OverlappingCreatesLeaveOneLive ==
  \A c, d \in DOMAIN creates :
    /\ c \in creates[d].during
    /\ creates[c].pc = "returned"
    /\ creates[d].pc = "returned"
    => \A i \in {creates[c].adapter, creates[d].adapter} :
         i # activeSession => IsDisconnected(adapters[i])

\* C36: when create has failed because adapter.start failed, the active
\* slot is empty and the adapter that create made has neither a running
\* child process nor an open transport.
C36_FailedStartReleasesChild ==
  mgrLast = [op |-> "create", result |-> "StartFailed"] =>
    /\ activeSession = 0
    /\ IsDisconnected(adapters[Len(adapters)])

(***************************************************************************)
(* Claims about the breakpoint tools await by await, checked under         *)
(* SpecBpCalls.                                                            *)
(***************************************************************************)
\* every tool call has run to completion
AllCallsDone ==
  /\ toolCalls.queue = <<>>
  /\ \A c \in DOMAIN toolCalls.calls :
       toolCalls.calls[c].pc \in {"returned", "failed"}

\* the runtime resolves a line to itself or not at all
PeerKeepsLines ==
  \A l \in Lines : peerBp[l].kind = "loc" => peerBp[l].line = l

LinesIn(list) == {list[i].line : i \in DOMAIN list}

\* call d names line l: it asks for l, or removes l, or removes every line
Names(d, l) ==
  IF d.op = "set" THEN l \in LinesIn(d.reqs)
  ELSE ~d.lines.given \/ l \in d.lines.vals

\* C37: once every set_breakpoints and remove_breakpoints call has run to
\* completion, with a runtime that keeps the requested lines, the lines the
\* registry lists for a file are those of the list the adapter applied last
\* for it, and a line set by a call that returned is still listed when no
\* other call on the file named it.
C37_InterleavedCallsKeepRegistry ==
  AllCallsDone /\ PeerKeepsLines =>
    \A f \in Files :
      /\ f \in DOMAIN toolCalls.applied =>
           LinesIn(getBreakpointsForFile(breakpoints, f))
             = LinesIn(toolCalls.applied[f].list)
      /\ \A c \in DOMAIN toolCalls.calls :
           LET call == toolCalls.calls[c]
           IN call.file = f /\ call.op = "set" /\ call.pc = "returned" =>
                \A l \in LinesIn(call.reqs) :
                  (\A d \in DOMAIN toolCalls.calls \ {c} :
                     toolCalls.calls[d].file = f => ~Names(toolCalls.calls[d], l))
                    => l \in LinesIn(getBreakpointsForFile(breakpoints, f))

\* C38: a set_breakpoints or remove_breakpoints call whose adapter request
\* fails ends with that error, and none of its steps writes the registry:
\* not the step up to the await, not the failure of the request, not the
\* step in which the handler throws; every file's list stays as it was.
C38_FailedRequestKeepsRegistry ==
  [][\A c \in DOMAIN toolCalls'.calls :
       LET after == toolCalls'.calls[c]
       IN /\ c \notin DOMAIN toolCalls.calls => breakpoints' = breakpoints
          /\ c \in DOMAIN toolCalls.calls /\ toolCalls.calls[c] # after =>
               /\ after.pc \in {"rejected", "failed"} => breakpoints' = breakpoints
               /\ toolCalls.calls[c].pc = "rejected" =>
                    after.pc = "failed" /\ after.error = "AdapterError"]_vars

\* C38 witness: a set_breakpoints call has failed with the error of the
\* adapter; the file it named has a stored list, and the call asked for a
\* line that list does not have
C38_Witness ==
  \E c \in DOMAIN toolCalls.calls :
    LET call == toolCalls.calls[c]
    IN /\ call.op = "set"
       /\ call.pc = "failed"
       /\ call.error = "AdapterError"
       /\ call.file \in DOMAIN breakpoints
       /\ \E i \in DOMAIN call.reqs :
            \A j \in DOMAIN breakpoints[call.file] :
              breakpoints[call.file][j].line # call.reqs[i].line

(***************************************************************************)
(* Claims about the phase gate and the session, checked under SpecGated.   *)
(***************************************************************************)
\* the phase is BREAKPOINTING and no CONFIRMING -> PLANNING edge was taken
FirstBreakpointing ==
  /\ CurrentState.currentPhase = "BREAKPOINTING"
  /\ CurrentState.currentStep = 0

\* C39: with a caller that dispatches only what isToolAllowed admits, from
\* an empty store and no session, no session is active up to and in the
\* first BREAKPOINTING phase, and every set_breakpoints, remove_breakpoints
\* and list_breakpoints call made in that phase fails with 'No active debug
\* session'.
C39_FirstBreakpointingHasNoSession ==
  [][/\ CurrentState.currentStep = 0
        /\ CurrentState.currentPhase \in {"PLANNING", "CODING", "BREAKPOINTING"}
        => activeSession = 0 /\ sessionCounter = 0
     /\ FirstBreakpointing /\ lastCall' # lastCall =>
          /\ lastCall'.op \in {"set", "remove", "list"}
          /\ lastCall'.outcome = "NoActiveSession"]_vars

\* C39 witness: a set_breakpoints call was made in the first BREAKPOINTING
\* phase and failed for want of a session
C39_Witness ==
  /\ FirstBreakpointing
  /\ lastCall.op = "set"
  /\ lastCall.outcome = "NoActiveSession"

(***************************************************************************)
(* Claims about State objects a caller holds, checked under SpecHeld.      *)
(***************************************************************************)
\* C40: a step adds an entry for an absent id only as create and
\* getOrCreate do, with the State create builds; a transition that changes
\* the entry of an id writes the State that follows from the entry the
\* store held; and any other change of an entry is a new State of create
\* or the stored State with autoConfirm rewritten.
C40_OnlyCreateAddsEntries ==
  [][\A id \in SessionIDs :
       /\ id \notin DOMAIN store /\ id \in DOMAIN store' =>
            /\ lastTransition' = NoTransition
            /\ store'[id] = CreateState(id)
       /\ id \in DOMAIN store /\ id \in DOMAIN store' /\ store'[id] # store[id] =>
            IF lastTransition' # NoTransition
            THEN store'[id] = transition(store[id], lastTransition'.to).next
            ELSE \/ store'[id] = CreateState(id)
                 \/ store'[id] = [store[id] EXCEPT
                                    !.autoConfirm = store'[id].autoConfirm]]_vars

====
